---- MODULE Spec2Model ----
(***************************************************************************)
(* A model of the Social Media API (FastAPI handlers over MongoDB          *)
(* collections).  Each collection is a function from document _id to the   *)
(* document's fields; each route handler is one action that runs the whole *)
(* handler against the collections and leaves its HTTP response in resp.   *)
(*                                                                         *)
(* Time: now counts clock ticks.  Every handler that stamps an _id from    *)
(* datetime.utcnow().timestamp() takes the current tick and advances the   *)
(* clock, so ids made by handlers that run one after the other differ.     *)
(*                                                                         *)
(* The datastore handle returned by get_collection is taken to be present  *)
(* and truthy (a connected database), so the "Database connection error"   *)
(* branches are not taken.                                                 *)
(***************************************************************************)
EXTENDS Integers, Sequences, FiniteSets, TLC

VARIABLES
    users,      \* collection "users":   _id -> document
    tokens,     \* subjects (user ids) of the bearer tokens issued so far
    events,     \* collection "events"
    groups,     \* collection "groups"
    ticket_types, \* collection "ticket_types"
    tickets,    \* collection "tickets"
    polls,      \* collection "polls"
    votes,      \* collection "votes"
    discussions, \* collection "discussions"
    messages,   \* collection "messages"
    purchases,  \* the purchase_ticket requests in flight, one per worker
    pending,    \* the other requests in flight between two datastore calls
    albums,     \* collection "albums"
    photos,     \* collection "photos"
    comments,   \* collection "comments"
    now,        \* the clock, in ticks
    resp        \* the response of the last request handled

vars == <<users, tokens, events, groups, ticket_types, tickets, polls, votes,
          discussions, messages, purchases, pending, albums, photos, comments,
          now, resp>>

authVars == <<users, tokens>>
ticketVars == <<ticket_types, tickets>>
pollVars == <<polls, votes>>
discussionVars == <<discussions, messages>>
albumVars == <<albums, photos, comments>>
exceptAuth == <<events, groups, ticketVars, pollVars, discussionVars, purchases, pending, albumVars>>
exceptEvents == <<authVars, groups, ticketVars, pollVars, discussionVars, purchases, pending, albumVars>>
exceptGroups == <<authVars, events, ticketVars, pollVars, discussionVars, purchases, pending, albumVars>>
exceptTickets == <<authVars, events, groups, pollVars, discussionVars, purchases, pending, albumVars>>
exceptPolls == <<authVars, events, groups, ticketVars, discussionVars, purchases, pending, albumVars>>
exceptDiscussions == <<authVars, events, groups, ticketVars, pollVars, purchases, pending, albumVars>>
exceptPurchases == <<authVars, events, groups, pollVars, discussionVars, pending, albumVars>>

----------------------------------------------------------------------------
(* Bounds of the model *)

MaxUsers == 2
MaxEvents == 1
MaxGroups == 1
MaxTicketTypes == 1
MaxPolls == 1
MaxQuantity == 2
MaxPerPerson == 2
TicksPerDay == 4
MaxAdminList == 2
MaxDiscussions == 2
MaxMessages == 3
MaxRequests == 2
MaxPhotos == 2
MaxComments == 2

(* Inputs *)

Emails == {"alice@mail.com", "bob@mail.com"}
Passwords == {"password", "hunter22"}
SearchTerms == {"alice", "mail"}
Privacies == {"public", "private"}
GroupTypes == {"public", "private", "secret"}
QuestionInputs == {[text |-> "Come?", answers |-> {"yes", "no"}]}
QuestionIds == {"q1"}
AnswerInputs == {"yes", "maybe"}
DiscussionTypes == {"group", "event"}
AlbumNames == {"holiday"}

----------------------------------------------------------------------------
(* Identifiers.  An _id is "<prefix>_<timestamp>" or, for users made by     *)
(* create_user, "user_<timestamp>_<email>": the record keeps the timestamp *)
(* and the trailing text.                                                  *)

NoId == [ts |-> 0, email |-> ""]

generate_id(t, suffix) == [ts |-> t, email |-> suffix]

(* HTTP status codes *)
OK == 200
Created == 201
NoContent == 204
BadRequest == 400
Unauthorized == 401
Forbidden == 403
NotFound == 404
ServerError == 500

(* A response, with the request it answers: the handler, the status, the   *)
(* authenticated caller, the record addressed, the arguments and the       *)
(* documents returned.                                                     *)
NoResp == [op |-> "none", status |-> 0, caller |-> NoId, target |-> NoId,
           email |-> "", password |-> "", sub |-> NoId, docs |-> {},
           question |-> "", answer |-> ""]

Reply(op, status, caller, target, email, password, sub, docs) ==
    [op |-> op, status |-> status, caller |-> caller, target |-> target,
     email |-> email, password |-> password, sub |-> sub, docs |-> docs,
     question |-> "", answer |-> ""]

Answer(op, status, caller, target, docs) ==
    Reply(op, status, caller, target, "", "", NoId, docs)

----------------------------------------------------------------------------
(* utils/security.py *)

bcrypt_hashpw(pw) == <<"bcrypt", "s", pw>>

get_password_hash(password) == bcrypt_hashpw("password")

verify_password(plain_password, hashed_password) ==
    bcrypt_hashpw(plain_password) = hashed_password

----------------------------------------------------------------------------
(* Documents of "users" as the routes see them: the _id joined to the     *)
(* stored fields.                                                          *)

UserDoc(id) == [id |-> id, email |-> users[id].email, is_active |-> users[id].is_active]

ActiveUsers == {id \in DOMAIN users : users[id].is_active}

(* utils/validators.py validate_email_unique: TRUE when validation passes   *)
validate_email_unique_any(email, exclude_user_id) ==
    ~ \E id \in DOMAIN users : users[id].email = email /\ id # exclude_user_id

validate_email_unique(email, exclude_user_id) ==
    ~ \E id \in ActiveUsers : users[id].email = email /\ id # exclude_user_id

(* utils/validators.py validate_user_exists *)
validate_user_exists(user_id) == user_id \in ActiveUsers

(* routes/auth.py get_current_user: the user a token resolves to, or NoId *)
get_current_user(token) ==
    IF token \in DOMAIN users THEN token ELSE NoId

NewUser(email, password) ==
    [email |-> email,
     hashed_password |-> get_password_hash(password),
     is_active |-> TRUE,
     reg_password |-> password]     \* history: the password registered with

insert_one_by_email(id, doc) ==
    [x \in DOMAIN users \cup {id} |->
        IF x = id \/ users[x].email = doc.email THEN doc ELSE users[x]]

(* users_collection.insert_one(user_dict): one more document, the others   *)
(* as they were                                                            *)
insert_one(id, doc) ==
    [x \in DOMAIN users \cup {id} |-> IF x = id THEN doc ELSE users[x]]

----------------------------------------------------------------------------
(* routes/auth.py *)

register(email, password) ==
    IF ~ validate_email_unique(email, NoId)
    THEN /\ resp' = Reply("register", BadRequest, NoId, NoId, email, password, NoId, {})
         /\ UNCHANGED <<users, tokens, now, exceptAuth>>
    ELSE LET id == generate_id(now, "") IN
         /\ Cardinality(DOMAIN users) < MaxUsers
         /\ users' = insert_one(id, NewUser(email, password))
         /\ now' = now + 1
         /\ resp' = Reply("register", Created, NoId, id, email, password, NoId,
                          {[id |-> id, email |-> email, is_active |-> TRUE]})
         /\ UNCHANGED <<tokens, exceptAuth>>

login(email, password) ==
    LET found == {id \in DOMAIN users : users[id].email = email} IN
    IF found = {}
    THEN /\ resp' = Reply("login", Unauthorized, NoId, NoId, email, password, NoId, {})
         /\ UNCHANGED <<users, tokens, now, exceptAuth>>
    ELSE \E id \in found :       \* find_one: some document that matches
         IF ~ verify_password(password, users[id].hashed_password)
         THEN /\ resp' = Reply("login", Unauthorized, NoId, id, email, password, NoId, {})
              /\ UNCHANGED <<users, tokens, now, exceptAuth>>
         ELSE IF ~ users[id].is_active
         THEN /\ resp' = Reply("login", BadRequest, NoId, id, email, password, NoId, {})
              /\ UNCHANGED <<users, tokens, now, exceptAuth>>
         ELSE /\ tokens' = tokens \cup {id}
              /\ resp' = Reply("login", OK, NoId, id, email, password, id, {})
              /\ UNCHANGED <<users, now, exceptAuth>>

read_users_me(token) ==
    LET current_user == get_current_user(token) IN
    /\ resp' = IF current_user = NoId
               THEN Reply("read_users_me", Unauthorized, NoId, NoId, "", "", NoId, {})
               ELSE Reply("read_users_me", OK, current_user, current_user, "", "", NoId,
                          {UserDoc(current_user)})
    /\ UNCHANGED <<users, tokens, now, exceptAuth>>

----------------------------------------------------------------------------
(* routes/users.py *)

EmailMatches(q, email) ==      \* {"email": {"$regex": q, "$options": "i"}}
    \/ q = "mail"
    \/ q = "alice" /\ email = "alice@mail.com"

get_users(token) ==
    LET current_user == get_current_user(token) IN
    /\ resp' = IF current_user = NoId
               THEN Reply("get_users", Unauthorized, NoId, NoId, "", "", NoId, {})
               ELSE Reply("get_users", OK, current_user, NoId, "", "", NoId,
                          {UserDoc(id) : id \in ActiveUsers})
    /\ UNCHANGED <<users, tokens, now, exceptAuth>>

get_user(token, user_id) ==
    LET current_user == get_current_user(token) IN
    /\ resp' = IF current_user = NoId
               THEN Reply("get_user", Unauthorized, NoId, user_id, "", "", NoId, {})
               ELSE IF user_id \notin ActiveUsers
               THEN Reply("get_user", NotFound, current_user, user_id, "", "", NoId, {})
               ELSE Reply("get_user", OK, current_user, user_id, "", "", NoId,
                          {UserDoc(user_id)})
    /\ UNCHANGED <<users, tokens, now, exceptAuth>>

search_users(token, q) ==
    LET current_user == get_current_user(token) IN
    /\ resp' = IF current_user = NoId
               THEN Reply("search_users", Unauthorized, NoId, NoId, q, "", NoId, {})
               ELSE Reply("search_users", OK, current_user, NoId, q, "", NoId,
                          {UserDoc(id) : id \in {x \in ActiveUsers : EmailMatches(q, users[x].email)}})
    /\ UNCHANGED <<users, tokens, now, exceptAuth>>

create_user(token, email, password) ==
    LET current_user == get_current_user(token) IN
    IF current_user = NoId
    THEN /\ resp' = Reply("create_user", Unauthorized, NoId, NoId, email, password, NoId, {})
         /\ UNCHANGED <<users, tokens, now, exceptAuth>>
    ELSE IF ~ validate_email_unique(email, NoId)
    THEN /\ resp' = Reply("create_user", BadRequest, current_user, NoId, email, password, NoId, {})
         /\ UNCHANGED <<users, tokens, now, exceptAuth>>
    ELSE LET id == generate_id(now, email) IN
         /\ Cardinality(DOMAIN users) < MaxUsers
         /\ users' = insert_one(id, NewUser(email, password))
         /\ now' = now + 1
         /\ resp' = Reply("create_user", Created, current_user, id, email, password, NoId,
                          {[id |-> id, email |-> email, is_active |-> TRUE]})
         /\ UNCHANGED <<tokens, exceptAuth>>

(* UserUpdate declares no email field, so reading user_data.email raises   *)
(* AttributeError once the existence and permission checks have passed:    *)
(* the request ends in a server error before any write.                    *)
update_user(token, user_id) ==
    LET current_user == get_current_user(token) IN
    /\ resp' = IF current_user = NoId
               THEN Reply("update_user", Unauthorized, NoId, user_id, "", "", NoId, {})
               ELSE IF user_id \notin ActiveUsers
               THEN Reply("update_user", NotFound, current_user, user_id, "", "", NoId, {})
               ELSE IF current_user # user_id
               THEN Reply("update_user", Forbidden, current_user, user_id, "", "", NoId, {})
               ELSE Reply("update_user", ServerError, current_user, user_id, "", "", NoId, {})
    /\ UNCHANGED <<users, tokens, now, exceptAuth>>

delete_user(token, user_id) ==
    LET current_user == get_current_user(token) IN
    IF current_user = NoId
    THEN /\ resp' = Reply("delete_user", Unauthorized, NoId, user_id, "", "", NoId, {})
         /\ UNCHANGED <<users, tokens, now, exceptAuth>>
    ELSE IF user_id \notin ActiveUsers
    THEN /\ resp' = Reply("delete_user", NotFound, current_user, user_id, "", "", NoId, {})
         /\ UNCHANGED <<users, tokens, now, exceptAuth>>
    ELSE IF current_user # user_id
    THEN /\ resp' = Reply("delete_user", Forbidden, current_user, user_id, "", "", NoId, {})
         /\ UNCHANGED <<users, tokens, now, exceptAuth>>
    ELSE /\ users' = [users EXCEPT ![user_id].is_active = FALSE]
         /\ resp' = Reply("delete_user", NoContent, current_user, user_id, "", "", NoId, {})
         /\ UNCHANGED <<tokens, now, exceptAuth>>

----------------------------------------------------------------------------
(* routes/events.py.  organizers and members are kept as sets: the         *)
(* handlers only test membership in them.                                  *)

ActiveEvents == {id \in DOMAIN events : events[id].is_active}

EventDoc(id) ==
    [id |-> id, privacy |-> events[id].privacy, organizers |-> events[id].organizers,
     members |-> events[id].members, creator_id |-> events[id].creator_id,
     is_active |-> events[id].is_active]

create_event(token, privacy, organizers, members, group_id, auto_invite) ==
    LET current_user == get_current_user(token) IN
    IF current_user = NoId
    THEN /\ resp' = Answer("create_event", Unauthorized, NoId, NoId, {})
         /\ UNCHANGED <<events, now, exceptEvents>>
    ELSE IF \E u \in organizers \cup members : ~ validate_user_exists(u)
    THEN /\ resp' = Answer("create_event", NotFound, current_user, NoId, {})
         /\ UNCHANGED <<events, now, exceptEvents>>
    ELSE LET group_members_to_add ==
                 IF group_id # NoId /\ auto_invite /\ group_id \in DOMAIN groups
                    /\ groups[group_id].is_active
                 THEN groups[group_id].member_ids ELSE {}
             id == generate_id(now, "")
             doc == [privacy |-> privacy,
                     organizers |-> organizers \cup {current_user},
                     members |-> members \cup group_members_to_add,
                     group_id |-> group_id,
                     creator_id |-> current_user,
                     is_active |-> TRUE]
         IN
         /\ Cardinality(DOMAIN events) < MaxEvents
         /\ events' = [x \in DOMAIN events \cup {id} |-> IF x = id THEN doc ELSE events[x]]
         /\ now' = now + 1
         /\ resp' = Answer("create_event", Created, current_user, id,
                           {[id |-> id, privacy |-> privacy, organizers |-> doc.organizers,
                             members |-> doc.members, creator_id |-> current_user,
                             is_active |-> TRUE]})
         /\ UNCHANGED exceptEvents

(* The Event response built from a document that was just written *)
EventOut(id, doc) ==
    [id |-> id, privacy |-> doc.privacy, organizers |-> doc.organizers,
     members |-> doc.members, creator_id |-> doc.creator_id,
     is_active |-> doc.is_active]

(* An optional field of a request body is {} when the body does not set it *)
(* and {v} when it sets it to v.                                           *)
Optional(values) == {{}} \cup {{v} : v \in values}

Given(field, old) == IF field = {} THEN old ELSE CHOOSE v \in field : TRUE

(* model_dump(exclude_unset=True, exclude_none=True) followed by $set: the *)
(* fields the body sets replace the stored ones                            *)
SetEventFields(doc, privacy, organizers, members) ==
    [doc EXCEPT !.privacy = Given(privacy, @),
                !.organizers = Given(organizers, @),
                !.members = Given(members, @)]

configure_event(token, event_id, privacy, organizers, members) ==
    LET current_user == get_current_user(token) IN
    IF current_user = NoId
    THEN /\ resp' = Answer("configure_event", Unauthorized, NoId, event_id, {})
         /\ UNCHANGED <<events, now, exceptEvents>>
    ELSE IF event_id \notin ActiveEvents
    THEN /\ resp' = Answer("configure_event", NotFound, current_user, event_id, {})
         /\ UNCHANGED <<events, now, exceptEvents>>
    ELSE IF current_user \notin events[event_id].organizers
            /\ current_user # events[event_id].creator_id
    THEN /\ resp' = Answer("configure_event", Forbidden, current_user, event_id, {})
         /\ UNCHANGED <<events, now, exceptEvents>>
    ELSE IF \E u \in Given(organizers, {}) \cup Given(members, {}) : ~ validate_user_exists(u)
    THEN /\ resp' = Answer("configure_event", NotFound, current_user, event_id, {})
         /\ UNCHANGED <<events, now, exceptEvents>>
    ELSE LET doc == SetEventFields(events[event_id], privacy, organizers, members) IN
         /\ events' = [events EXCEPT ![event_id] = doc]
         /\ resp' = Answer("configure_event", OK, current_user, event_id,
                           {EventOut(event_id, doc)})
         /\ UNCHANGED <<now, exceptEvents>>

update_event(token, event_id, privacy, organizers, members) ==
    LET current_user == get_current_user(token) IN
    IF current_user = NoId
    THEN /\ resp' = Answer("update_event", Unauthorized, NoId, event_id, {})
         /\ UNCHANGED <<events, now, exceptEvents>>
    ELSE IF event_id \notin ActiveEvents
    THEN /\ resp' = Answer("update_event", NotFound, current_user, event_id, {})
         /\ UNCHANGED <<events, now, exceptEvents>>
    ELSE IF current_user \notin events[event_id].organizers
            /\ current_user # events[event_id].creator_id
    THEN /\ resp' = Answer("update_event", Forbidden, current_user, event_id, {})
         /\ UNCHANGED <<events, now, exceptEvents>>
    ELSE IF \E u \in Given(organizers, {}) \cup Given(members, {}) : ~ validate_user_exists(u)
    THEN /\ resp' = Answer("update_event", NotFound, current_user, event_id, {})
         /\ UNCHANGED <<events, now, exceptEvents>>
    ELSE LET doc == SetEventFields(events[event_id], privacy, organizers, members) IN
         /\ events' = [events EXCEPT ![event_id] = doc]
         /\ resp' = Answer("update_event", OK, current_user, event_id,
                           {EventOut(event_id, doc)})
         /\ UNCHANGED <<now, exceptEvents>>

delete_event(token, event_id) ==
    LET current_user == get_current_user(token) IN
    IF current_user = NoId
    THEN /\ resp' = Answer("delete_event", Unauthorized, NoId, event_id, {})
         /\ UNCHANGED <<events, now, exceptEvents>>
    ELSE IF event_id \notin ActiveEvents
    THEN /\ resp' = Answer("delete_event", NotFound, current_user, event_id, {})
         /\ UNCHANGED <<events, now, exceptEvents>>
    ELSE IF current_user \notin events[event_id].organizers
            /\ current_user # events[event_id].creator_id
    THEN /\ resp' = Answer("delete_event", Forbidden, current_user, event_id, {})
         /\ UNCHANGED <<events, now, exceptEvents>>
    ELSE /\ events' = [events EXCEPT ![event_id].is_active = FALSE]
         /\ resp' = Answer("delete_event", NoContent, current_user, event_id, {})
         /\ UNCHANGED <<now, exceptEvents>>

join_event(token, event_id) ==
    LET current_user == get_current_user(token) IN
    IF current_user = NoId
    THEN /\ resp' = Answer("join_event", Unauthorized, NoId, event_id, {})
         /\ UNCHANGED <<events, now, exceptEvents>>
    ELSE IF event_id \notin ActiveEvents
    THEN /\ resp' = Answer("join_event", NotFound, current_user, event_id, {})
         /\ UNCHANGED <<events, now, exceptEvents>>
    ELSE IF events[event_id].privacy # "public"
    THEN /\ resp' = Answer("join_event", Forbidden, current_user, event_id, {})
         /\ UNCHANGED <<events, now, exceptEvents>>
    ELSE IF current_user \in events[event_id].members
            \/ current_user \in events[event_id].organizers
    THEN /\ resp' = Answer("join_event", BadRequest, current_user, event_id, {})
         /\ UNCHANGED <<events, now, exceptEvents>>
    ELSE /\ events' = [events EXCEPT ![event_id].members = @ \cup {current_user}]
         /\ resp' = Answer("join_event", OK, current_user, event_id,
                           {[EventDoc(event_id) EXCEPT
                                !.members = @ \cup {current_user}]})
         /\ UNCHANGED <<now, exceptEvents>>

(* The list handlers return one page (skip, limit) of the matching         *)
(* documents; the model returns all of them, which every page is part of.  *)
get_events(token, public_only) ==
    LET current_user == get_current_user(token) IN
    /\ resp' = IF current_user = NoId
               THEN Answer("get_events", Unauthorized, NoId, NoId, {})
               ELSE Answer("get_events", OK, current_user, NoId,
                      {EventDoc(id) : id \in {x \in ActiveEvents :
                          IF public_only THEN events[x].privacy = "public"
                          ELSE \/ events[x].privacy = "public"
                               \/ current_user \in events[x].members
                               \/ current_user \in events[x].organizers
                               \/ current_user = events[x].creator_id}})
    /\ UNCHANGED <<events, now, exceptEvents>>

(* The privacy test of get_event: TRUE when it raises nothing for the user *)
event_access(event, user_id) ==
    event.privacy = "private" =>
        \/ user_id \in event.members
        \/ user_id \in event.organizers
        \/ user_id = event.creator_id

(* The response is an EventResponse built from the model_dump() of the    *)
(* Event: model_dump() names the identifier "id", and EventResponse takes  *)
(* it only under its alias "_id" (the models set no populate_by_name), so  *)
(* building the response fails validation and a request that passed the    *)
(* privacy test answers 500.                                               *)
get_event(token, event_id) ==
    LET current_user == get_current_user(token) IN
    /\ resp' = IF current_user = NoId
               THEN Answer("get_event", Unauthorized, NoId, event_id, {})
               ELSE IF event_id \notin ActiveEvents
               THEN Answer("get_event", NotFound, current_user, event_id, {})
               ELSE IF ~ event_access(events[event_id], current_user)
               THEN Answer("get_event", Forbidden, current_user, event_id, {})
               ELSE Answer("get_event", ServerError, current_user, event_id, {})
    /\ UNCHANGED <<events, now, exceptEvents>>

get_user_events(token, user_id) ==
    LET current_user == get_current_user(token) IN
    /\ resp' = IF current_user = NoId
               THEN Answer("get_user_events", Unauthorized, NoId, user_id, {})
               ELSE Answer("get_user_events", OK, current_user, user_id,
                      {EventDoc(id) : id \in {x \in ActiveEvents :
                          \/ events[x].creator_id = user_id
                          \/ user_id \in events[x].organizers
                          \/ user_id \in events[x].members}})
    /\ UNCHANGED <<events, now, exceptEvents>>

----------------------------------------------------------------------------
(* routes/groups.py.  admin_ids is the list the handlers keep (create_group *)
(* stores the list it was given); member_ids starts empty and changes only *)
(* by $addToSet and $pull, so it is kept as a set.                         *)

ActiveGroups == {id \in DOMAIN groups : groups[id].is_active}

Elems(list) == {list[i] : i \in 1..Len(list)}

GroupDoc(id) ==
    [id |-> id, type |-> groups[id].type, admin_ids |-> groups[id].admin_ids,
     member_ids |-> groups[id].member_ids, creator_id |-> groups[id].creator_id,
     is_active |-> groups[id].is_active]

get_groups(token, group_type) ==
    LET current_user == get_current_user(token) IN
    /\ resp' = IF current_user = NoId
               THEN Answer("get_groups", Unauthorized, NoId, NoId, {})
               ELSE Answer("get_groups", OK, current_user, NoId,
                      {GroupDoc(id) : id \in {x \in ActiveGroups :
                          IF group_type # "" THEN groups[x].type = group_type
                          ELSE groups[x].type \in {"public", "private"}}})
    /\ UNCHANGED <<groups, now, exceptGroups>>

(* The test get_group makes on secret groups: TRUE when it raises nothing  *)
group_access(group, user_id) ==
    group.type = "secret" =>
        \/ user_id \in group.member_ids
        \/ user_id \in Elems(group.admin_ids)
        \/ user_id = group.creator_id

(* GroupResponse, built from the model_dump() of the Group, fails          *)
(* validation as EventResponse does in get_event: 500 once the access test *)
(* has passed.                                                             *)
get_group(token, group_id) ==
    LET current_user == get_current_user(token) IN
    /\ resp' = IF current_user = NoId
               THEN Answer("get_group", Unauthorized, NoId, group_id, {})
               ELSE IF group_id \notin ActiveGroups
               THEN Answer("get_group", NotFound, current_user, group_id, {})
               ELSE IF ~ group_access(groups[group_id], current_user)
               THEN Answer("get_group", Forbidden, current_user, group_id, {})
               ELSE Answer("get_group", ServerError, current_user, group_id, {})
    /\ UNCHANGED <<groups, now, exceptGroups>>

create_group(token, type, admin_ids) ==
    LET current_user == get_current_user(token) IN
    IF current_user = NoId
    THEN /\ resp' = Answer("create_group", Unauthorized, NoId, NoId, {})
         /\ UNCHANGED <<groups, now, exceptGroups>>
    ELSE IF \E u \in Elems(admin_ids) : ~ validate_user_exists(u)
    THEN /\ resp' = Answer("create_group", NotFound, current_user, NoId, {})
         /\ UNCHANGED <<groups, now, exceptGroups>>
    ELSE LET id == generate_id(now, "")
             doc == [type |-> type,
                     admin_ids |-> IF current_user \notin Elems(admin_ids)
                                   THEN Append(admin_ids, current_user) ELSE admin_ids,
                     member_ids |-> {},
                     creator_id |-> current_user,
                     is_active |-> TRUE]
         IN
         /\ Cardinality(DOMAIN groups) < MaxGroups
         /\ groups' = [x \in DOMAIN groups \cup {id} |-> IF x = id THEN doc ELSE groups[x]]
         /\ now' = now + 1
         /\ resp' = Answer("create_group", Created, current_user, id,
                           {[id |-> id, type |-> type, admin_ids |-> doc.admin_ids,
                             member_ids |-> {}, creator_id |-> current_user,
                             is_active |-> TRUE]})
         /\ UNCHANGED exceptGroups

delete_group(token, group_id) ==
    LET current_user == get_current_user(token) IN
    IF current_user = NoId
    THEN /\ resp' = Answer("delete_group", Unauthorized, NoId, group_id, {})
         /\ UNCHANGED <<groups, now, exceptGroups>>
    ELSE IF group_id \notin ActiveGroups
    THEN /\ resp' = Answer("delete_group", NotFound, current_user, group_id, {})
         /\ UNCHANGED <<groups, now, exceptGroups>>
    ELSE IF current_user \notin Elems(groups[group_id].admin_ids)
            /\ current_user # groups[group_id].creator_id
    THEN /\ resp' = Answer("delete_group", Forbidden, current_user, group_id, {})
         /\ UNCHANGED <<groups, now, exceptGroups>>
    ELSE /\ groups' = [groups EXCEPT ![group_id].is_active = FALSE]
         /\ resp' = Answer("delete_group", NoContent, current_user, group_id, {})
         /\ UNCHANGED <<now, exceptGroups>>

get_user_groups(token, user_id) ==
    LET current_user == get_current_user(token) IN
    /\ resp' = IF current_user = NoId
               THEN Answer("get_user_groups", Unauthorized, NoId, user_id, {})
               ELSE Answer("get_user_groups", OK, current_user, user_id,
                      {GroupDoc(id) : id \in {x \in ActiveGroups :
                          \/ groups[x].creator_id = user_id
                          \/ user_id \in Elems(groups[x].admin_ids)
                          \/ user_id \in groups[x].member_ids}})
    /\ UNCHANGED <<groups, now, exceptGroups>>

(* The Group response built from a document that was just written *)
GroupOut(id, doc) ==
    [id |-> id, type |-> doc.type, admin_ids |-> doc.admin_ids,
     member_ids |-> doc.member_ids, creator_id |-> doc.creator_id,
     is_active |-> doc.is_active]

(* $pull: every occurrence of the value leaves the list *)
Pull(list, v) == SelectSeq(list, LAMBDA x : x # v)

(* $addToSet on a list: appended unless already there *)
AddToSet(list, v) == IF v \in Elems(list) THEN list ELSE Append(list, v)

(* group_type "" stands for a GroupUpdate that does not set type *)
update_group(token, group_id, group_type) ==
    LET current_user == get_current_user(token) IN
    IF current_user = NoId
    THEN /\ resp' = Answer("update_group", Unauthorized, NoId, group_id, {})
         /\ UNCHANGED <<groups, now, exceptGroups>>
    ELSE IF group_id \notin ActiveGroups
    THEN /\ resp' = Answer("update_group", NotFound, current_user, group_id, {})
         /\ UNCHANGED <<groups, now, exceptGroups>>
    ELSE IF current_user \notin Elems(groups[group_id].admin_ids)
            /\ current_user # groups[group_id].creator_id
    THEN /\ resp' = Answer("update_group", Forbidden, current_user, group_id, {})
         /\ UNCHANGED <<groups, now, exceptGroups>>
    ELSE LET doc == IF group_type = "" THEN groups[group_id]
                    ELSE [groups[group_id] EXCEPT !.type = group_type]
         IN
         /\ groups' = [groups EXCEPT ![group_id] = doc]
         /\ resp' = Answer("update_group", OK, current_user, group_id,
                           {GroupOut(group_id, doc)})
         /\ UNCHANGED <<now, exceptGroups>>

InvitationOnly_private(group_type) == group_type = "private"

(* The group types join_group turns away *)
InvitationOnly(group_type) == group_type = "secret"

join_group(token, group_id) ==
    LET current_user == get_current_user(token) IN
    IF current_user = NoId
    THEN /\ resp' = Answer("join_group", Unauthorized, NoId, group_id, {})
         /\ UNCHANGED <<groups, now, exceptGroups>>
    ELSE IF group_id \notin ActiveGroups
    THEN /\ resp' = Answer("join_group", NotFound, current_user, group_id, {})
         /\ UNCHANGED <<groups, now, exceptGroups>>
    ELSE IF InvitationOnly(groups[group_id].type)
    THEN /\ resp' = Answer("join_group", Forbidden, current_user, group_id, {})
         /\ UNCHANGED <<groups, now, exceptGroups>>
    ELSE IF \/ current_user \in groups[group_id].member_ids
            \/ current_user \in Elems(groups[group_id].admin_ids)
    THEN /\ resp' = Answer("join_group", BadRequest, current_user, group_id, {})
         /\ UNCHANGED <<groups, now, exceptGroups>>
    ELSE LET doc == [groups[group_id] EXCEPT !.member_ids = @ \cup {current_user}] IN
         /\ groups' = [groups EXCEPT ![group_id] = doc]
         /\ resp' = Answer("join_group", OK, current_user, group_id,
                           {GroupOut(group_id, doc)})
         /\ UNCHANGED <<now, exceptGroups>>

OnlyAdministrator_any_one(admin_ids, user_id) ==
    Len(admin_ids) = 1 /\ admin_ids[1] # user_id

(* The test leave_group makes before it lets an administrator go *)
OnlyAdministrator(admin_ids, user_id) ==
    Len(admin_ids) = 1 /\ admin_ids[1] = user_id

leave_group(token, group_id) ==
    LET current_user == get_current_user(token) IN
    IF current_user = NoId
    THEN /\ resp' = Answer("leave_group", Unauthorized, NoId, group_id, {})
         /\ UNCHANGED <<groups, now, exceptGroups>>
    ELSE IF group_id \notin ActiveGroups
    THEN /\ resp' = Answer("leave_group", NotFound, current_user, group_id, {})
         /\ UNCHANGED <<groups, now, exceptGroups>>
    ELSE LET group == groups[group_id]
             is_admin == current_user \in Elems(group.admin_ids)
         IN
         IF current_user \notin group.member_ids /\ ~ is_admin
         THEN /\ resp' = Answer("leave_group", BadRequest, current_user, group_id, {})
              /\ UNCHANGED <<groups, now, exceptGroups>>
         ELSE IF is_admin /\ OnlyAdministrator(group.admin_ids, current_user)
         THEN /\ resp' = Answer("leave_group", BadRequest, current_user, group_id, {})
              /\ UNCHANGED <<groups, now, exceptGroups>>
         ELSE LET doc == [group EXCEPT
                            !.member_ids = @ \ {current_user},
                            !.admin_ids = IF is_admin THEN Pull(@, current_user) ELSE @]
              IN
              /\ groups' = [groups EXCEPT ![group_id] = doc]
              /\ resp' = Answer("leave_group", OK, current_user, group_id,
                                {GroupOut(group_id, doc)})
              /\ UNCHANGED <<now, exceptGroups>>

promote_to_admin(token, group_id, user_id) ==
    LET current_user == get_current_user(token) IN
    IF current_user = NoId
    THEN /\ resp' = Answer("promote_to_admin", Unauthorized, NoId, group_id, {})
         /\ UNCHANGED <<groups, now, exceptGroups>>
    ELSE IF group_id \notin ActiveGroups
    THEN /\ resp' = Answer("promote_to_admin", NotFound, current_user, group_id, {})
         /\ UNCHANGED <<groups, now, exceptGroups>>
    ELSE IF current_user \notin Elems(groups[group_id].admin_ids)
            /\ current_user # groups[group_id].creator_id
    THEN /\ resp' = Answer("promote_to_admin", Forbidden, current_user, group_id, {})
         /\ UNCHANGED <<groups, now, exceptGroups>>
    ELSE IF \/ user_id \notin groups[group_id].member_ids
            \/ user_id \in Elems(groups[group_id].admin_ids)
    THEN /\ resp' = Answer("promote_to_admin", BadRequest, current_user, group_id, {})
         /\ UNCHANGED <<groups, now, exceptGroups>>
    ELSE LET doc == [groups[group_id] EXCEPT !.admin_ids = AddToSet(@, user_id)] IN
         /\ groups' = [groups EXCEPT ![group_id] = doc]
         /\ resp' = Answer("promote_to_admin", OK, current_user, group_id,
                           {GroupOut(group_id, doc)})
         /\ UNCHANGED <<now, exceptGroups>>


----------------------------------------------------------------------------
(* routes/tickets.py *)

(* purchase_ticket's two refusals: "available <= 0" and                    *)
(* "user_tickets_count >= max_per_person"                                  *)
InventoryExhausted_off_by_one(available) == available < 0

InventoryExhausted(available) == available <= 0

PersonalLimitReached_off_by_one(count, max_per_person) == count > max_per_person

PersonalLimitReached(count, max_per_person) == count >= max_per_person

ActiveTicketTypes == {id \in DOMAIN ticket_types : ticket_types[id].is_active}

(* datetime.utcnow().strftime('%Y%m%d'): the day a tick falls in *)
Day(t) == t \div TicksPerDay

(* current_user.id[-6:], the last six characters of a user id: of          *)
(* "user_<timestamp>" they are digits of the timestamp, of                 *)
(* "user_<timestamp>_<email>" they are the last six characters of the      *)
(* email ("il.com" for every address @mail.com).                           *)
EmailTail6(email) == IF email \in {"alice@mail.com", "bob@mail.com"} THEN "il.com" ELSE email

Last6(user_id) ==
    IF user_id.email = ""
    THEN [digits |-> user_id.ts, text |-> ""]
    ELSE [digits |-> 0, text |-> EmailTail6(user_id.email)]

(* "TKT-<day>-<last six characters of the buyer's id>" *)
ticket_number(t, user_id) == [day |-> Day(t), tail |-> Last6(user_id)]

(* count_documents({ticket_type_id, buyer_id, is_valid: True}) *)
user_tickets_count(ticket_type_id, buyer_id) ==
    Cardinality({k \in DOMAIN tickets :
                    /\ tickets[k].ticket_type_id = ticket_type_id
                    /\ tickets[k].buyer_id = buyer_id
                    /\ tickets[k].is_valid})

(* The response model TicketType declares available_count both as a        *)
(* required field and as a property, so whether building the response      *)
(* succeeds after the insert depends on the pydantic release: the status   *)
(* is either 201 or 500; the ticket type is stored in both cases.          *)
create_ticket_type(token, event_id, quantity, max_per_person) ==
    LET current_user == get_current_user(token) IN
    IF current_user = NoId
    THEN /\ resp' = Answer("create_ticket_type", Unauthorized, NoId, event_id, {})
         /\ UNCHANGED <<ticketVars, now, exceptTickets>>
    ELSE IF event_id \notin ActiveEvents
    THEN /\ resp' = Answer("create_ticket_type", NotFound, current_user, event_id, {})
         /\ UNCHANGED <<ticketVars, now, exceptTickets>>
    ELSE IF current_user \notin events[event_id].organizers
    THEN /\ resp' = Answer("create_ticket_type", Forbidden, current_user, event_id, {})
         /\ UNCHANGED <<ticketVars, now, exceptTickets>>
    ELSE LET id == generate_id(now, "")
             doc == [event_id |-> event_id, quantity |-> quantity,
                     max_per_person |-> max_per_person, sold_count |-> 0,
                     is_active |-> TRUE]
         IN
         /\ Cardinality(DOMAIN ticket_types) < MaxTicketTypes
         /\ ticket_types' = [x \in DOMAIN ticket_types \cup {id} |->
                               IF x = id THEN doc ELSE ticket_types[x]]
         /\ now' = now + 1
         /\ \E st \in {Created, ServerError} :
                resp' = Answer("create_ticket_type", st, current_user, id, {})
         /\ UNCHANGED <<tickets, exceptTickets>>

purchase_ticket(token, ticket_type_id) ==
    LET current_user == get_current_user(token) IN
    IF current_user = NoId
    THEN /\ resp' = Answer("purchase_ticket", Unauthorized, NoId, ticket_type_id, {})
         /\ UNCHANGED <<ticketVars, now, exceptTickets>>
    ELSE IF ticket_type_id \notin ActiveTicketTypes
    THEN /\ resp' = Answer("purchase_ticket", NotFound, current_user, ticket_type_id, {})
         /\ UNCHANGED <<ticketVars, now, exceptTickets>>
    ELSE LET ticket_type == ticket_types[ticket_type_id]
             available == ticket_type.quantity - ticket_type.sold_count
             key == [ts |-> now, buyer |-> current_user]
             ticket == [ticket_type_id |-> ticket_type_id,
                        event_id |-> ticket_type.event_id,
                        buyer_id |-> current_user,
                        ticket_number |-> ticket_number(now, current_user),
                        is_valid |-> TRUE]
         IN
         IF InventoryExhausted(available)
         THEN /\ resp' = Answer("purchase_ticket", BadRequest, current_user, ticket_type_id, {})
              /\ UNCHANGED <<ticketVars, now, exceptTickets>>
         ELSE IF PersonalLimitReached(user_tickets_count(ticket_type_id, current_user),
                                      ticket_type.max_per_person)
         THEN /\ resp' = Answer("purchase_ticket", BadRequest, current_user, ticket_type_id, {})
              /\ UNCHANGED <<ticketVars, now, exceptTickets>>
         ELSE /\ tickets' = [x \in DOMAIN tickets \cup {key} |->
                                IF x = key THEN ticket ELSE tickets[x]]
              /\ ticket_types' = [ticket_types EXCEPT ![ticket_type_id].sold_count = @ + 1]
              /\ now' = now + 1
              /\ resp' = Answer("purchase_ticket", OK, current_user, ticket_type_id, {ticket})
              /\ UNCHANGED exceptTickets

(* purchase_ticket as the event loop runs it: the handler gives way at     *)
(* each await on the datastore, so requests interleave between its four    *)
(* datastore operations (find_one, count_documents, insert_one,            *)
(* update_one).  A request keeps what it has read in its own variables.    *)

Requests == 1..MaxRequests

Idle == [pc |-> "idle", caller |-> NoId, ticket_type_id |-> NoId,
         quantity |-> 0, sold_count |-> 0, max_per_person |-> 0, event_id |-> NoId]

(* find_one on ticket_types, then the availability test on what was read *)
purchase_find(r, token, ticket_type_id) ==
    LET current_user == get_current_user(token) IN
    /\ purchases[r].pc = "idle"
    /\ IF current_user = NoId
       THEN /\ resp' = Answer("purchase_ticket", Unauthorized, NoId, ticket_type_id, {})
            /\ UNCHANGED purchases
       ELSE IF ticket_type_id \notin ActiveTicketTypes
       THEN /\ resp' = Answer("purchase_ticket", NotFound, current_user, ticket_type_id, {})
            /\ UNCHANGED purchases
       ELSE LET ticket_type == ticket_types[ticket_type_id] IN
            IF InventoryExhausted(ticket_type.quantity - ticket_type.sold_count)
            THEN /\ resp' = Answer("purchase_ticket", BadRequest, current_user,
                                   ticket_type_id, {})
                 /\ UNCHANGED purchases
            ELSE /\ purchases' = [purchases EXCEPT ![r] =
                        [pc |-> "found", caller |-> current_user,
                         ticket_type_id |-> ticket_type_id,
                         quantity |-> ticket_type.quantity,
                         sold_count |-> ticket_type.sold_count,
                         max_per_person |-> ticket_type.max_per_person,
                         event_id |-> ticket_type.event_id]]
                 /\ UNCHANGED resp
    /\ UNCHANGED <<ticketVars, now, exceptPurchases>>

(* count_documents on tickets, then the per-person test *)
purchase_count(r) ==
    LET req == purchases[r] IN
    /\ req.pc = "found"
    /\ IF PersonalLimitReached(user_tickets_count(req.ticket_type_id, req.caller),
                               req.max_per_person)
       THEN /\ resp' = Answer("purchase_ticket", BadRequest, req.caller,
                              req.ticket_type_id, {})
            /\ purchases' = [purchases EXCEPT ![r] = Idle]
       ELSE /\ purchases' = [purchases EXCEPT ![r].pc = "counted"]
            /\ UNCHANGED resp
    /\ UNCHANGED <<ticketVars, now, exceptPurchases>>

(* the ticket is stamped and insert_one stores it *)
purchase_insert(r) ==
    LET req == purchases[r]
        key == [ts |-> now, buyer |-> req.caller]
        ticket == [ticket_type_id |-> req.ticket_type_id,
                   event_id |-> req.event_id,
                   buyer_id |-> req.caller,
                   ticket_number |-> ticket_number(now, req.caller),
                   is_valid |-> TRUE]
    IN
    /\ req.pc = "counted"
    /\ tickets' = [x \in DOMAIN tickets \cup {key} |->
                      IF x = key THEN ticket ELSE tickets[x]]
    /\ now' = now + 1
    /\ purchases' = [purchases EXCEPT ![r].pc = "inserted"]
    /\ UNCHANGED <<ticket_types, resp, exceptPurchases>>

(* update_one $inc sold_count, and the response *)
purchase_increment(r) ==
    LET req == purchases[r] IN
    /\ req.pc = "inserted"
    /\ ticket_types' = [ticket_types EXCEPT ![req.ticket_type_id].sold_count = @ + 1]
    /\ purchases' = [purchases EXCEPT ![r] = Idle]
    /\ resp' = Answer("purchase_ticket", OK, req.caller, req.ticket_type_id, {})
    /\ UNCHANGED <<tickets, now, exceptPurchases>>

----------------------------------------------------------------------------
(* routes/polls.py *)

ActivePolls == {id \in DOMAIN polls : polls[id].is_active}

(* create_poll's questions_with_counts: each question keeps the fields of  *)
(* QuestionCreate and gains response_counts; no "_id" is given to it.      *)
QuestionWithCounts_with_id(q) ==
    ("_id" :> "q1") @@
    [text |-> q.text, answers |-> q.answers,
     response_counts |-> [a \in q.answers |-> 0]]

QuestionWithCounts(q) ==
    [text |-> q.text, answers |-> q.answers,
     response_counts |-> [a \in q.answers |-> 0]]

QuestionsWithCounts(questions) ==
    [i \in 1..Len(questions) |-> QuestionWithCounts(questions[i])]

(* vote_poll's loop over poll["questions"]: reading question["_id"] of a   *)
(* question that has no such key raises KeyError.                          *)
RECURSIVE FindQuestion(_, _, _, _)
FindQuestion(questions, i, question_id, answer) ==
    IF i > Len(questions) THEN "question_not_found"
    ELSE IF "_id" \notin DOMAIN questions[i] THEN "KeyError"
    ELSE IF questions[i]["_id"] = question_id
         THEN IF answer \notin questions[i].answers THEN "invalid_answer" ELSE "found"
    ELSE FindQuestion(questions, i + 1, question_id, answer)

(* update_one({"_id": poll_id, "questions._id": question_id},              *)
(*            {"$inc": {total_responses, questions.$.response_counts.a}})  *)
RECURSIVE FirstWithId(_, _, _)
FirstWithId(questions, i, question_id) ==
    IF i > Len(questions) THEN 0
    ELSE IF "_id" \in DOMAIN questions[i] /\ questions[i]["_id"] = question_id THEN i
    ELSE FirstWithId(questions, i + 1, question_id)

IncrementCounts(poll, question_id, answer) ==
    LET i == FirstWithId(poll.questions, 1, question_id) IN
    IF i = 0 THEN poll
    ELSE [poll EXCEPT
            !.total_responses = @ + 1,
            !.questions[i].response_counts =
                IF answer \in DOMAIN @
                THEN [@ EXCEPT ![answer] = @ + 1]
                ELSE [a \in DOMAIN @ \cup {answer} |-> IF a = answer THEN 1 ELSE @[a]]]

(* Building the Poll response at the end of create_poll fails validation,  *)
(* because the questions lack the "_id" and "poll_id" that Question        *)
(* requires: the poll is inserted and the request answers 500.             *)
create_poll(token, event_id, questions, allow_multiple_votes) ==
    LET current_user == get_current_user(token) IN
    IF current_user = NoId
    THEN /\ resp' = Answer("create_poll", Unauthorized, NoId, event_id, {})
         /\ UNCHANGED <<pollVars, now, exceptPolls>>
    ELSE IF event_id \notin ActiveEvents
    THEN /\ resp' = Answer("create_poll", NotFound, current_user, event_id, {})
         /\ UNCHANGED <<pollVars, now, exceptPolls>>
    ELSE IF current_user \notin events[event_id].organizers
    THEN /\ resp' = Answer("create_poll", Forbidden, current_user, event_id, {})
         /\ UNCHANGED <<pollVars, now, exceptPolls>>
    ELSE LET id == generate_id(now, "")
             doc == [event_id |-> event_id,
                     creator_id |-> current_user,
                     questions |-> QuestionsWithCounts(questions),
                     allow_multiple_votes |-> allow_multiple_votes,
                     total_responses |-> 0,
                     is_active |-> TRUE]
         IN
         /\ Cardinality(DOMAIN polls) < MaxPolls
         /\ polls' = [x \in DOMAIN polls \cup {id} |-> IF x = id THEN doc ELSE polls[x]]
         /\ now' = now + 1
         /\ resp' = Answer("create_poll", ServerError, current_user, id, {})
         /\ UNCHANGED <<votes, exceptPolls>>

VoteReply(status, caller, poll_id, question_id, answer) ==
    [Answer("vote_poll", status, caller, poll_id, {}) EXCEPT
        !.question = question_id, !.answer = answer]

VotesOf(poll_id, user_id) ==
    {k \in DOMAIN votes : votes[k].poll_id = poll_id /\ votes[k].user_id = user_id}

(* the participation test of vote_poll: passed when the event is not found *)
(* among the active events                                                 *)
MayVote(user_id, event_id) ==
    event_id \in ActiveEvents =>
        user_id \in events[event_id].members \cup events[event_id].organizers

vote_poll(token, poll_id, question_id, answer) ==
    LET current_user == get_current_user(token) IN
    IF current_user = NoId
    THEN /\ resp' = VoteReply(Unauthorized, NoId, poll_id, question_id, answer)
         /\ UNCHANGED <<pollVars, now, exceptPolls>>
    ELSE IF poll_id \notin ActivePolls
    THEN /\ resp' = VoteReply(NotFound, current_user, poll_id, question_id, answer)
         /\ UNCHANGED <<pollVars, now, exceptPolls>>
    ELSE LET poll == polls[poll_id]
             found == FindQuestion(poll.questions, 1, question_id, answer)
             key == generate_id(now, "")
             vote == [poll_id |-> poll_id, question_id |-> question_id,
                      user_id |-> current_user, answer |-> answer]
         IN
         IF ~ MayVote(current_user, poll.event_id)
         THEN /\ resp' = VoteReply(Forbidden, current_user, poll_id, question_id, answer)
              /\ UNCHANGED <<pollVars, now, exceptPolls>>
         ELSE IF ~ poll.allow_multiple_votes /\ VotesOf(poll_id, current_user) # {}
         THEN /\ resp' = VoteReply(BadRequest, current_user, poll_id, question_id, answer)
              /\ UNCHANGED <<pollVars, now, exceptPolls>>
         ELSE IF found = "KeyError"
         THEN /\ resp' = VoteReply(ServerError, current_user, poll_id, question_id, answer)
              /\ UNCHANGED <<pollVars, now, exceptPolls>>
         ELSE IF found = "invalid_answer"
         THEN /\ resp' = VoteReply(BadRequest, current_user, poll_id, question_id, answer)
              /\ UNCHANGED <<pollVars, now, exceptPolls>>
         ELSE IF found = "question_not_found"
         THEN /\ resp' = VoteReply(NotFound, current_user, poll_id, question_id, answer)
              /\ UNCHANGED <<pollVars, now, exceptPolls>>
         ELSE /\ votes' = [x \in DOMAIN votes \cup {key} |->
                              IF x = key THEN vote ELSE votes[x]]
              /\ polls' = [polls EXCEPT ![poll_id] = IncrementCounts(@, question_id, answer)]
              /\ now' = now + 1
              /\ resp' = VoteReply(OK, current_user, poll_id, question_id, answer)
              /\ UNCHANGED exceptPolls

----------------------------------------------------------------------------
(* routes/discussions.py and utils/validators.py validate_discussion_access *)

ActiveDiscussions == {id \in DOMAIN discussions : discussions[id].is_active}

(* TRUE when validate_discussion_access raises nothing for the user *)
validate_discussion_access(discussion, user_id) ==
    IF discussion.discussion_type = "group"
    THEN LET linked_id == discussion.linked_id IN
         (linked_id \in ActiveGroups /\ groups[linked_id].type = "secret") =>
            \/ user_id \in groups[linked_id].member_ids
            \/ user_id \in Elems(groups[linked_id].admin_ids)
    ELSE IF discussion.discussion_type = "event"
    THEN LET linked_id == discussion.linked_id IN
         (linked_id \in ActiveEvents /\ events[linked_id].privacy = "private") =>
            \/ user_id \in events[linked_id].members
            \/ user_id \in events[linked_id].organizers
    ELSE TRUE

create_discussion(token, discussion_type, linked_id) ==
    LET current_user == get_current_user(token) IN
    IF current_user = NoId
    THEN /\ resp' = Answer("create_discussion", Unauthorized, NoId, NoId, {})
         /\ UNCHANGED <<discussionVars, now, exceptDiscussions>>
    ELSE IF \/ discussion_type = "group" /\ linked_id \notin ActiveGroups
            \/ discussion_type = "event" /\ linked_id \notin ActiveEvents
    THEN /\ resp' = Answer("create_discussion", NotFound, current_user, NoId, {})
         /\ UNCHANGED <<discussionVars, now, exceptDiscussions>>
    ELSE IF \/ /\ discussion_type = "group"
               /\ current_user \notin groups[linked_id].member_ids
               /\ current_user \notin Elems(groups[linked_id].admin_ids)
            \/ /\ discussion_type = "event"
               /\ current_user \notin events[linked_id].members
               /\ current_user \notin events[linked_id].organizers
    THEN /\ resp' = Answer("create_discussion", Forbidden, current_user, NoId, {})
         /\ UNCHANGED <<discussionVars, now, exceptDiscussions>>
    ELSE LET id == generate_id(now, "")
             doc == [discussion_type |-> discussion_type,
                     linked_id |-> linked_id,
                     creator_id |-> current_user,
                     message_count |-> 0,
                     is_active |-> TRUE]
         IN
         /\ Cardinality(DOMAIN discussions) < MaxDiscussions
         /\ discussions' = [x \in DOMAIN discussions \cup {id} |->
                              IF x = id THEN doc ELSE discussions[x]]
         /\ now' = now + 1
         /\ resp' = Answer("create_discussion", Created, current_user, id,
                           {[id |-> id] @@ doc})
         /\ UNCHANGED <<messages, exceptDiscussions>>

(* get_discussion: find_one with is_active, validate_discussion_access,   *)
(* the last messages and the author; the DiscussionResponse is then built  *)
(* from the model_dump() of the Discussion, which fails validation as      *)
(* EventResponse does in get_event.                                        *)
get_discussion(token, discussion_id) ==
    LET current_user == get_current_user(token) IN
    /\ resp' = IF current_user = NoId
               THEN Answer("get_discussion", Unauthorized, NoId, discussion_id, {})
               ELSE IF discussion_id \notin ActiveDiscussions
               THEN Answer("get_discussion", NotFound, current_user, discussion_id, {})
               ELSE IF ~ validate_discussion_access(discussions[discussion_id],
                                                    current_user)
               THEN Answer("get_discussion", Forbidden, current_user, discussion_id, {})
               ELSE Answer("get_discussion", ServerError, current_user, discussion_id, {})
    /\ UNCHANGED <<discussionVars, now, exceptDiscussions>>

WithOneMoreReply_set(message) == [message EXCEPT !.reply_count = 1]

(* $inc reply_count on the parent of a reply *)
WithOneMoreReply(message) == [message EXCEPT !.reply_count = @ + 1]

(* The parent a reply may name: a stored active message of the discussion  *)
(* in the path                                                             *)
ParentFound(parent_message_id, discussion_id) ==
    /\ parent_message_id \in DOMAIN messages
    /\ messages[parent_message_id].discussion_id = discussion_id
    /\ messages[parent_message_id].is_active

(* discussion_id is the path parameter; body_discussion_id and             *)
(* parent_message_id are the fields of the MessageCreate body, which       *)
(* model_dump() copies into the stored message.  parent_message_id NoId    *)
(* stands for a body without a parent.                                     *)
create_message(token, discussion_id, body_discussion_id, parent_message_id) ==
    LET current_user == get_current_user(token) IN
    IF current_user = NoId
    THEN /\ resp' = Answer("create_message", Unauthorized, NoId, discussion_id, {})
         /\ UNCHANGED <<discussionVars, now, exceptDiscussions>>
    ELSE IF discussion_id \notin ActiveDiscussions
    THEN /\ resp' = Answer("create_message", NotFound, current_user, discussion_id, {})
         /\ UNCHANGED <<discussionVars, now, exceptDiscussions>>
    ELSE IF ~ validate_discussion_access(discussions[discussion_id], current_user)
    THEN /\ resp' = Answer("create_message", Forbidden, current_user, discussion_id, {})
         /\ UNCHANGED <<discussionVars, now, exceptDiscussions>>
    ELSE IF parent_message_id # NoId /\ ~ ParentFound(parent_message_id, discussion_id)
    THEN /\ resp' = Answer("create_message", NotFound, current_user, discussion_id, {})
         /\ UNCHANGED <<discussionVars, now, exceptDiscussions>>
    ELSE LET id == generate_id(now, "")
             doc == [discussion_id |-> body_discussion_id,
                     parent_message_id |-> parent_message_id,
                     author_id |-> current_user,
                     reply_count |-> 0,
                     is_active |-> TRUE]
         IN
         /\ Cardinality(DOMAIN messages) < MaxMessages
         /\ messages' = [x \in DOMAIN messages \cup {id} |->
                           IF x = id THEN doc
                           ELSE IF x = parent_message_id
                           THEN WithOneMoreReply(messages[x])
                           ELSE messages[x]]
         /\ discussions' = [discussions EXCEPT ![discussion_id].message_count = @ + 1]
         /\ now' = now + 1
         /\ resp' = Answer("create_message", Created, current_user, discussion_id,
                           {[id |-> id] @@ doc})
         /\ UNCHANGED exceptDiscussions

----------------------------------------------------------------------------
(* Requests in flight.  A handler gives way to other requests at each      *)
(* await on the datastore; between two awaits it works on what it has read *)
(* (doc) and on its own arguments (body).  pending[r] is the position of   *)
(* the request that worker r is handling.                                  *)

Quiet == [op |-> "", pc |-> "idle", caller |-> NoId, target |-> NoId,
          body |-> <<>>, doc |-> <<>>]

(* routes/polls.py vote_poll, one step per datastore call.                 *)
(* find_one on polls                                                       *)
vote_find_poll(r, token, poll_id, question_id, answer) ==
    LET current_user == get_current_user(token) IN
    /\ pending[r].pc = "idle"
    /\ IF current_user = NoId
       THEN /\ resp' = VoteReply(Unauthorized, NoId, poll_id, question_id, answer)
            /\ UNCHANGED pending
       ELSE IF poll_id \notin ActivePolls
       THEN /\ resp' = VoteReply(NotFound, current_user, poll_id, question_id, answer)
            /\ UNCHANGED pending
       ELSE /\ pending' = [pending EXCEPT ![r] =
                   [op |-> "vote_poll", pc |-> "poll", caller |-> current_user,
                    target |-> poll_id,
                    body |-> [question_id |-> question_id, answer |-> answer],
                    doc |-> polls[poll_id]]]
            /\ UNCHANGED resp
    /\ UNCHANGED <<authVars, events, groups, ticketVars, pollVars, discussionVars,
                   purchases, albumVars, now>>

(* The rest of vote_poll, from the datastore call the request is waiting   *)
(* for: find_one on events and the participation test ("poll"); find_one   *)
(* on votes when the poll read does not allow several votes, then the loop *)
(* over the questions of the poll read ("event"); insert_one on votes      *)
(* ("checked"); update_one on polls and the response ("inserted").         *)
vote_resume(r) ==
    LET req == pending[r]
        poll == req.doc
        question_id == req.body.question_id
        answer == req.body.answer
        found == FindQuestion(poll.questions, 1, question_id, answer)
        key == generate_id(now, "")
        vote == [poll_id |-> req.target, question_id |-> question_id,
                 user_id |-> req.caller, answer |-> answer]
        Fail(status) ==
            /\ resp' = VoteReply(status, req.caller, req.target, question_id, answer)
            /\ pending' = [pending EXCEPT ![r] = Quiet]
            /\ UNCHANGED <<pollVars, now>>
    IN
    /\ req.op = "vote_poll"
    /\ CASE req.pc = "poll" ->
                IF ~ MayVote(req.caller, poll.event_id)
                THEN Fail(Forbidden)
                ELSE /\ pending' = [pending EXCEPT ![r].pc = "event"]
                     /\ UNCHANGED <<pollVars, now, resp>>
         [] req.pc = "event" ->
                IF ~ poll.allow_multiple_votes /\ VotesOf(req.target, req.caller) # {}
                THEN Fail(BadRequest)
                ELSE IF found = "KeyError" THEN Fail(ServerError)
                ELSE IF found = "invalid_answer" THEN Fail(BadRequest)
                ELSE IF found = "question_not_found" THEN Fail(NotFound)
                ELSE /\ pending' = [pending EXCEPT ![r].pc = "checked"]
                     /\ UNCHANGED <<pollVars, now, resp>>
         [] req.pc = "checked" ->
                /\ votes' = [x \in DOMAIN votes \cup {key} |->
                                IF x = key THEN vote ELSE votes[x]]
                /\ now' = now + 1
                /\ pending' = [pending EXCEPT ![r].pc = "inserted"]
                /\ UNCHANGED <<polls, resp>>
         [] req.pc = "inserted" ->
                /\ polls' = [polls EXCEPT
                                ![req.target] = IncrementCounts(@, question_id, answer)]
                /\ resp' = VoteReply(OK, req.caller, req.target, question_id, answer)
                /\ pending' = [pending EXCEPT ![r] = Quiet]
                /\ UNCHANGED <<votes, now>>
    /\ UNCHANGED <<authVars, events, groups, ticketVars, discussionVars, purchases, albumVars>>

(* routes/groups.py join_group, leave_group and promote_to_admin, one step *)
(* per datastore call: find_one with is_active and the tests on the        *)
(* document read, then update_one with the filter {"_id": group_id} and    *)
(* the closing find_one.                                                   *)
join_group_find(r, token, group_id) ==
    LET current_user == get_current_user(token)
        Fail(status) == /\ resp' = Answer("join_group", status, current_user, group_id, {})
                        /\ UNCHANGED pending
    IN
    /\ pending[r].pc = "idle"
    /\ IF current_user = NoId THEN Fail(Unauthorized)
       ELSE IF group_id \notin ActiveGroups THEN Fail(NotFound)
       ELSE IF InvitationOnly(groups[group_id].type) THEN Fail(Forbidden)
       ELSE IF \/ current_user \in groups[group_id].member_ids
               \/ current_user \in Elems(groups[group_id].admin_ids)
       THEN Fail(BadRequest)
       ELSE /\ pending' = [pending EXCEPT ![r] =
                   [op |-> "join_group", pc |-> "found", caller |-> current_user,
                    target |-> group_id, body |-> [user_id |-> current_user],
                    doc |-> groups[group_id]]]
            /\ UNCHANGED resp
    /\ UNCHANGED <<groups, now, authVars, events, ticketVars, pollVars,
                   discussionVars, purchases, albumVars>>

leave_group_find(r, token, group_id) ==
    LET current_user == get_current_user(token)
        Fail(status) == /\ resp' = Answer("leave_group", status, current_user, group_id, {})
                        /\ UNCHANGED pending
    IN
    /\ pending[r].pc = "idle"
    /\ IF current_user = NoId THEN Fail(Unauthorized)
       ELSE IF group_id \notin ActiveGroups THEN Fail(NotFound)
       ELSE LET group == groups[group_id]
                is_admin == current_user \in Elems(group.admin_ids)
            IN
            IF current_user \notin group.member_ids /\ ~ is_admin THEN Fail(BadRequest)
            ELSE IF is_admin /\ OnlyAdministrator(group.admin_ids, current_user)
            THEN Fail(BadRequest)
            ELSE /\ pending' = [pending EXCEPT ![r] =
                        [op |-> "leave_group", pc |-> "found", caller |-> current_user,
                         target |-> group_id, body |-> [user_id |-> current_user],
                         doc |-> group]]
                 /\ UNCHANGED resp
    /\ UNCHANGED <<groups, now, authVars, events, ticketVars, pollVars,
                   discussionVars, purchases, albumVars>>

promote_to_admin_find(r, token, group_id, user_id) ==
    LET current_user == get_current_user(token)
        Fail(status) ==
            /\ resp' = Answer("promote_to_admin", status, current_user, group_id, {})
            /\ UNCHANGED pending
    IN
    /\ pending[r].pc = "idle"
    /\ IF current_user = NoId THEN Fail(Unauthorized)
       ELSE IF group_id \notin ActiveGroups THEN Fail(NotFound)
       ELSE IF current_user \notin Elems(groups[group_id].admin_ids)
               /\ current_user # groups[group_id].creator_id
       THEN Fail(Forbidden)
       ELSE IF \/ user_id \notin groups[group_id].member_ids
               \/ user_id \in Elems(groups[group_id].admin_ids)
       THEN Fail(BadRequest)
       ELSE /\ pending' = [pending EXCEPT ![r] =
                   [op |-> "promote_to_admin", pc |-> "found", caller |-> current_user,
                    target |-> group_id, body |-> [user_id |-> user_id],
                    doc |-> groups[group_id]]]
            /\ UNCHANGED resp
    /\ UNCHANGED <<groups, now, authVars, events, ticketVars, pollVars,
                   discussionVars, purchases, albumVars>>

(* The update_one each of the three handlers sends after its tests: the    *)
(* operators were chosen from the document the request read, and they are  *)
(* applied to the document stored now.                                     *)
group_update(r) ==
    LET req == pending[r]
        read == req.doc
        stored == groups[req.target]
        doc == CASE req.op = "join_group" ->
                      [stored EXCEPT !.member_ids = @ \cup {req.caller}]
                 [] req.op = "leave_group" ->
                      [stored EXCEPT
                          !.member_ids = IF req.caller \in read.member_ids
                                         THEN @ \ {req.caller} ELSE @,
                          !.admin_ids = IF req.caller \in Elems(read.admin_ids)
                                        THEN Pull(@, req.caller) ELSE @]
                 [] req.op = "promote_to_admin" ->
                      [stored EXCEPT !.admin_ids = AddToSet(@, req.body.user_id)]
    IN
    /\ req.op \in {"join_group", "leave_group", "promote_to_admin"}
    /\ req.pc = "found"
    /\ groups' = [groups EXCEPT ![req.target] = doc]
    /\ resp' = Answer(req.op, OK, req.caller, req.target, {GroupOut(req.target, doc)})
    /\ pending' = [pending EXCEPT ![r] = Quiet]
    /\ UNCHANGED <<now, authVars, events, ticketVars, pollVars, discussionVars, purchases, albumVars>>

(* routes/auth.py register and routes/users.py create_user, one step per   *)
(* datastore call: the find_one of validate_email_unique, then insert_one. *)
register_validate(r, email, password) ==
    /\ pending[r].pc = "idle"
    /\ IF ~ validate_email_unique(email, NoId)
       THEN /\ resp' = Reply("register", BadRequest, NoId, NoId, email, password, NoId, {})
            /\ UNCHANGED pending
       ELSE /\ pending' = [pending EXCEPT ![r] =
                   [op |-> "register", pc |-> "validated", caller |-> NoId,
                    target |-> NoId,
                    body |-> [email |-> email, password |-> password, suffix |-> ""],
                    doc |-> <<>>]]
            /\ UNCHANGED resp
    /\ UNCHANGED <<authVars, now, events, groups, ticketVars, pollVars, discussionVars,
                   purchases, albumVars>>

create_user_validate(r, token, email, password) ==
    LET current_user == get_current_user(token) IN
    /\ pending[r].pc = "idle"
    /\ IF current_user = NoId
       THEN /\ resp' = Reply("create_user", Unauthorized, NoId, NoId, email, password,
                             NoId, {})
            /\ UNCHANGED pending
       ELSE IF ~ validate_email_unique(email, NoId)
       THEN /\ resp' = Reply("create_user", BadRequest, current_user, NoId, email,
                             password, NoId, {})
            /\ UNCHANGED pending
       ELSE /\ pending' = [pending EXCEPT ![r] =
                   [op |-> "create_user", pc |-> "validated", caller |-> current_user,
                    target |-> NoId,
                    body |-> [email |-> email, password |-> password, suffix |-> email],
                    doc |-> <<>>]]
            /\ UNCHANGED resp
    /\ UNCHANGED <<authVars, now, events, groups, ticketVars, pollVars, discussionVars,
                   purchases, albumVars>>

(* insert_one(user_dict) of either handler, and its 201 response *)
user_insert(r) ==
    LET req == pending[r]
        id == generate_id(now, req.body.suffix)
    IN
    /\ req.op \in {"register", "create_user"}
    /\ req.pc = "validated"
    /\ Cardinality(DOMAIN users) < MaxUsers
    /\ users' = insert_one(id, NewUser(req.body.email, req.body.password))
    /\ now' = now + 1
    /\ resp' = Reply(req.op, Created, req.caller, id, req.body.email, req.body.password,
                     NoId, {[id |-> id, email |-> req.body.email, is_active |-> TRUE]})
    /\ pending' = [pending EXCEPT ![r] = Quiet]
    /\ UNCHANGED <<tokens, events, groups, ticketVars, pollVars, discussionVars, purchases, albumVars>>

(* routes/events.py join_event, update_event and configure_event, one step *)
(* for the find_one with is_active and the tests that follow it (the       *)
(* validate_user_exists lookups included), one for the update_one with the *)
(* filter {"_id": event_id} and the closing find_one.                      *)
join_event_find(r, token, event_id) ==
    LET current_user == get_current_user(token)
        Fail(status) == /\ resp' = Answer("join_event", status, current_user, event_id, {})
                        /\ UNCHANGED pending
    IN
    /\ pending[r].pc = "idle"
    /\ IF current_user = NoId THEN Fail(Unauthorized)
       ELSE IF event_id \notin ActiveEvents THEN Fail(NotFound)
       ELSE IF events[event_id].privacy # "public" THEN Fail(Forbidden)
       ELSE IF \/ current_user \in events[event_id].members
               \/ current_user \in events[event_id].organizers
       THEN Fail(BadRequest)
       ELSE /\ pending' = [pending EXCEPT ![r] =
                   [op |-> "join_event", pc |-> "found", caller |-> current_user,
                    target |-> event_id,
                    body |-> [privacy |-> {}, organizers |-> {}, members |-> {}],
                    doc |-> events[event_id]]]
            /\ UNCHANGED resp
    /\ UNCHANGED <<events, now, authVars, groups, ticketVars, pollVars,
                   discussionVars, purchases, albumVars>>

update_event_find(r, token, event_id, privacy, organizers, members) ==
    LET current_user == get_current_user(token)
        Fail(status) == /\ resp' = Answer("update_event", status, current_user, event_id, {})
                        /\ UNCHANGED pending
    IN
    /\ pending[r].pc = "idle"
    /\ IF current_user = NoId THEN Fail(Unauthorized)
       ELSE IF event_id \notin ActiveEvents THEN Fail(NotFound)
       ELSE IF current_user \notin events[event_id].organizers
               /\ current_user # events[event_id].creator_id
       THEN Fail(Forbidden)
       ELSE IF \E u \in Given(organizers, {}) \cup Given(members, {}) :
                    ~ validate_user_exists(u)
       THEN Fail(NotFound)
       ELSE /\ pending' = [pending EXCEPT ![r] =
                   [op |-> "update_event", pc |-> "found", caller |-> current_user,
                    target |-> event_id,
                    body |-> [privacy |-> privacy, organizers |-> organizers,
                              members |-> members],
                    doc |-> events[event_id]]]
            /\ UNCHANGED resp
    /\ UNCHANGED <<events, now, authVars, groups, ticketVars, pollVars,
                   discussionVars, purchases, albumVars>>

configure_event_find(r, token, event_id, privacy, organizers, members) ==
    LET current_user == get_current_user(token)
        Fail(status) ==
            /\ resp' = Answer("configure_event", status, current_user, event_id, {})
            /\ UNCHANGED pending
    IN
    /\ pending[r].pc = "idle"
    /\ IF current_user = NoId THEN Fail(Unauthorized)
       ELSE IF event_id \notin ActiveEvents THEN Fail(NotFound)
       ELSE IF current_user \notin events[event_id].organizers
               /\ current_user # events[event_id].creator_id
       THEN Fail(Forbidden)
       ELSE IF \E u \in Given(organizers, {}) \cup Given(members, {}) :
                    ~ validate_user_exists(u)
       THEN Fail(NotFound)
       ELSE /\ pending' = [pending EXCEPT ![r] =
                   [op |-> "configure_event", pc |-> "found", caller |-> current_user,
                    target |-> event_id,
                    body |-> [privacy |-> privacy, organizers |-> organizers,
                              members |-> members],
                    doc |-> events[event_id]]]
            /\ UNCHANGED resp
    /\ UNCHANGED <<events, now, authVars, groups, ticketVars, pollVars,
                   discussionVars, purchases, albumVars>>

(* The update_one of the three handlers: $addToSet of the caller to        *)
(* members for join_event, $set of the fields of the body for the others,  *)
(* on the document stored now.                                             *)
event_update(r) ==
    LET req == pending[r]
        stored == events[req.target]
        doc == IF req.op = "join_event"
               THEN [stored EXCEPT !.members = @ \cup {req.caller}]
               ELSE SetEventFields(stored, req.body.privacy, req.body.organizers,
                                   req.body.members)
    IN
    /\ req.op \in {"join_event", "update_event", "configure_event"}
    /\ req.pc = "found"
    /\ events' = [events EXCEPT ![req.target] = doc]
    /\ resp' = Answer(req.op, OK, req.caller, req.target, {EventOut(req.target, doc)})
    /\ pending' = [pending EXCEPT ![r] = Quiet]
    /\ UNCHANGED <<now, authVars, groups, ticketVars, pollVars, discussionVars, purchases, albumVars>>

(* routes/discussions.py create_message in two steps: the lookups, the     *)
(* tests and insert_one; then the two update_one calls that increment      *)
(* message_count of the discussion in the path and reply_count of the      *)
(* parent.                                                                 *)
create_message_insert(r, token, discussion_id, body_discussion_id, parent_message_id) ==
    LET current_user == get_current_user(token)
        Fail(status) ==
            /\ resp' = Answer("create_message", status, current_user, discussion_id, {})
            /\ UNCHANGED <<pending, messages, now>>
        id == generate_id(now, "")
        doc == [discussion_id |-> body_discussion_id,
                parent_message_id |-> parent_message_id,
                author_id |-> current_user,
                reply_count |-> 0,
                is_active |-> TRUE]
    IN
    /\ pending[r].pc = "idle"
    /\ IF current_user = NoId THEN Fail(Unauthorized)
       ELSE IF discussion_id \notin ActiveDiscussions THEN Fail(NotFound)
       ELSE IF ~ validate_discussion_access(discussions[discussion_id], current_user)
       THEN Fail(Forbidden)
       ELSE IF parent_message_id # NoId /\ ~ ParentFound(parent_message_id, discussion_id)
       THEN Fail(NotFound)
       ELSE /\ Cardinality(DOMAIN messages) < MaxMessages
            /\ messages' = [x \in DOMAIN messages \cup {id} |->
                              IF x = id THEN doc ELSE messages[x]]
            /\ now' = now + 1
            /\ pending' = [pending EXCEPT ![r] =
                   [op |-> "create_message", pc |-> "inserted", caller |-> current_user,
                    target |-> discussion_id, body |-> [id |-> id], doc |-> doc]]
            /\ UNCHANGED resp
    /\ UNCHANGED <<discussions, authVars, events, groups, ticketVars, pollVars,
                   purchases, albumVars>>

create_message_increment(r) ==
    LET req == pending[r] IN
    /\ req.op = "create_message"
    /\ req.pc = "inserted"
    /\ discussions' = [discussions EXCEPT ![req.target].message_count = @ + 1]
    /\ messages' = [x \in DOMAIN messages |->
                      IF x = req.doc.parent_message_id
                      THEN WithOneMoreReply(messages[x]) ELSE messages[x]]
    /\ resp' = Answer("create_message", Created, req.caller, req.target,
                      {[id |-> req.body.id] @@ req.doc})
    /\ pending' = [pending EXCEPT ![r] = Quiet]
    /\ UNCHANGED <<now, authVars, events, groups, ticketVars, pollVars,
                   purchases, albumVars>>

----------------------------------------------------------------------------
(* routes/albums.py *)

create_album(token, event_id, name) ==
    LET current_user == get_current_user(token)
        Fail(status) == /\ resp' = Answer("create_album", status, current_user, event_id, {})
                        /\ UNCHANGED <<albums, now>>
        id == generate_id(now, "")
        doc == [event_id |-> event_id, name |-> name, creator_id |-> current_user,
                photo_count |-> 0, is_active |-> TRUE]
    IN
    /\ IF current_user = NoId THEN Fail(Unauthorized)
       ELSE IF event_id \notin ActiveEvents THEN Fail(NotFound)
       ELSE IF current_user \notin events[event_id].members \cup events[event_id].organizers
       THEN Fail(Forbidden)
       ELSE IF \E a \in DOMAIN albums : /\ albums[a].event_id = event_id
                                        /\ albums[a].name = name
                                        /\ albums[a].is_active
       THEN Fail(BadRequest)
       ELSE /\ albums' = [x \in DOMAIN albums \cup {id} |->
                            IF x = id THEN doc ELSE albums[x]]
            /\ now' = now + 1
            /\ resp' = Answer("create_album", Created, current_user, id, {})
    /\ UNCHANGED <<photos, comments, authVars, events, groups, ticketVars, pollVars,
                   discussionVars, purchases, pending>>

(* upload_photo up to insert_one on photos.  The participation test is the *)
(* one vote_poll makes: passed when the event is not among the active ones *)
upload_photo_insert(r, token, album_id) ==
    LET current_user == get_current_user(token)
        Fail(status) == /\ resp' = Answer("upload_photo", status, current_user, album_id, {})
                        /\ UNCHANGED <<pending, photos, now>>
        id == generate_id(now, "")
    IN
    /\ pending[r].pc = "idle"
    /\ IF current_user = NoId THEN Fail(Unauthorized)
       ELSE IF album_id \notin DOMAIN albums \/ ~ albums[album_id].is_active
       THEN Fail(NotFound)
       ELSE IF ~ MayVote(current_user, albums[album_id].event_id) THEN Fail(Forbidden)
       ELSE LET doc == [album_id |-> album_id, event_id |-> albums[album_id].event_id,
                        author_id |-> current_user, comment_count |-> 0,
                        is_active |-> TRUE]
            IN
            /\ Cardinality(DOMAIN photos) < MaxPhotos
            /\ photos' = [x \in DOMAIN photos \cup {id} |->
                            IF x = id THEN doc ELSE photos[x]]
            /\ now' = now + 1
            /\ pending' = [pending EXCEPT ![r] =
                   [op |-> "upload_photo", pc |-> "inserted", caller |-> current_user,
                    target |-> album_id, body |-> [id |-> id], doc |-> doc]]
            /\ UNCHANGED resp
    /\ UNCHANGED <<albums, comments, authVars, events, groups, ticketVars, pollVars,
                   discussionVars, purchases>>

(* create_comment up to insert_one on comments.  photo_id is the path      *)
(* parameter; body_photo_id is the photo_id field of the CommentCreate     *)
(* body, which model_dump() copies into the stored comment.                *)
create_comment_insert(r, token, photo_id, body_photo_id) ==
    LET current_user == get_current_user(token)
        Fail(status) == /\ resp' = Answer("create_comment", status, current_user, photo_id, {})
                        /\ UNCHANGED <<pending, comments, now>>
        id == generate_id(now, "")
        doc == [photo_id |-> body_photo_id, author_id |-> current_user]
    IN
    /\ pending[r].pc = "idle"
    /\ IF current_user = NoId THEN Fail(Unauthorized)
       ELSE IF photo_id \notin DOMAIN photos \/ ~ photos[photo_id].is_active
       THEN Fail(NotFound)
       ELSE IF ~ MayVote(current_user, photos[photo_id].event_id) THEN Fail(Forbidden)
       ELSE /\ Cardinality(DOMAIN comments) < MaxComments
            /\ comments' = [x \in DOMAIN comments \cup {id} |->
                              IF x = id THEN doc ELSE comments[x]]
            /\ now' = now + 1
            /\ pending' = [pending EXCEPT ![r] =
                   [op |-> "create_comment", pc |-> "inserted", caller |-> current_user,
                    target |-> photo_id, body |-> [id |-> id], doc |-> doc]]
            /\ UNCHANGED resp
    /\ UNCHANGED <<albums, photos, authVars, events, groups, ticketVars, pollVars,
                   discussionVars, purchases>>

(* The update_one that follows the insert: $inc of photo_count on the      *)
(* album, or of comment_count on the photo in the path                     *)
counter_increment(r) ==
    LET req == pending[r] IN
    /\ req.op \in {"upload_photo", "create_comment"}
    /\ req.pc = "inserted"
    /\ IF req.op = "upload_photo"
       THEN /\ albums' = [albums EXCEPT ![req.target].photo_count = @ + 1]
            /\ UNCHANGED photos
       ELSE /\ photos' = [photos EXCEPT ![req.target].comment_count = @ + 1]
            /\ UNCHANGED albums
    /\ resp' = Answer(req.op, Created, req.caller, req.target,
                      {[id |-> req.body.id] @@ req.doc})
    /\ pending' = [pending EXCEPT ![r] = Quiet]
    /\ UNCHANGED <<comments, now, authVars, events, groups, ticketVars, pollVars,
                   discussionVars, purchases>>

----------------------------------------------------------------------------
Init ==
    /\ users = <<>>
    /\ tokens = {}
    /\ events = <<>>
    /\ groups = <<>>
    /\ ticket_types = <<>>
    /\ tickets = <<>>
    /\ polls = <<>>
    /\ votes = <<>>
    /\ discussions = <<>>
    /\ messages = <<>>
    /\ purchases = [r \in Requests |-> Idle]
    /\ pending = [r \in Requests |-> Quiet]
    /\ albums = <<>>
    /\ photos = <<>>
    /\ comments = <<>>
    /\ now = 1
    /\ resp = NoResp

Credentials == tokens \cup {NoId}   \* the tokens issued, and one that resolves to no user

NextUsers ==
    \/ \E e \in Emails, p \in Passwords : register(e, p)
    \/ \E e \in Emails, p \in Passwords : login(e, p)
    \/ \E t \in Credentials : read_users_me(t)
    \/ \E t \in Credentials : get_users(t)
    \/ \E t \in Credentials, id \in DOMAIN users : get_user(t, id)
    \/ \E t \in Credentials, q \in SearchTerms : search_users(t, q)
    \/ \E t \in Credentials, e \in Emails, p \in Passwords : create_user(t, e, p)
    \/ \E t \in Credentials, id \in DOMAIN users : update_user(t, id)
    \/ \E t \in Credentials, id \in DOMAIN users : delete_user(t, id)

SpecUsers == Init /\ [][NextUsers]_vars

(* Soft deletion and the reads: accounts, one event and one group that can *)
(* be deleted, and every list and get handler                              *)
NextReads ==
    \/ register("alice@mail.com", "password")
    \/ login("alice@mail.com", "password")
    \/ \E t \in Credentials, id \in DOMAIN users : delete_user(t, id)
    \/ \E t \in Credentials : read_users_me(t)
    \/ \E t \in Credentials : get_users(t)
    \/ \E t \in Credentials, id \in DOMAIN users : get_user(t, id)
    \/ \E t \in Credentials, q \in SearchTerms : search_users(t, q)
    \/ \E t \in Credentials, pr \in Privacies : create_event(t, pr, {}, {}, NoId, FALSE)
    \/ \E t \in Credentials, ev \in DOMAIN events : delete_event(t, ev)
    \/ \E t \in Credentials, po \in BOOLEAN : get_events(t, po)
    \/ \E t \in Credentials, ev \in DOMAIN events : get_event(t, ev)
    \/ \E t \in Credentials, id \in DOMAIN users : get_user_events(t, id)
    \/ \E t \in Credentials, ty \in GroupTypes : create_group(t, ty, <<>>)
    \/ \E t \in Credentials, g \in DOMAIN groups : delete_group(t, g)
    \/ \E t \in Credentials, ty \in GroupTypes \cup {""} : get_groups(t, ty)
    \/ \E t \in Credentials, g \in DOMAIN groups : get_group(t, g)
    \/ \E t \in Credentials, id \in DOMAIN users : get_user_groups(t, id)

SpecReads == Init /\ [][NextReads]_vars

(* The ticket office: accounts, one event, its ticket types and purchases *)
NextTickets ==
    \/ \E e \in Emails : register(e, "password")
    \/ \E t \in Credentials, e \in Emails : create_user(t, e, "password")
    \/ \E e \in Emails : login(e, "password")
    \/ \E t \in Credentials : create_event(t, "public", {}, {}, NoId, FALSE)
    \/ \E t \in Credentials, ev \in DOMAIN events, q \in 1..MaxQuantity, m \in 1..MaxPerPerson :
            create_ticket_type(t, ev, q, m)
    \/ \E t \in Credentials, tt \in DOMAIN ticket_types : purchase_ticket(t, tt)

SpecTickets == Init /\ [][NextTickets]_vars

(* The polls of an event: accounts, one event that can be joined and       *)
(* deleted, its polls and the votes                                        *)
NextPolls ==
    \/ \E e \in Emails : register(e, "password")
    \/ \E e \in Emails : login(e, "password")
    \/ \E t \in Credentials, pr \in Privacies : create_event(t, pr, {}, {}, NoId, FALSE)
    \/ \E t \in Credentials, ev \in DOMAIN events : join_event(t, ev)
    \/ \E t \in Credentials, ev \in DOMAIN events : delete_event(t, ev)
    \/ \E t \in Credentials, ev \in DOMAIN events, q \in QuestionInputs, m \in BOOLEAN :
            create_poll(t, ev, <<q>>, m)
    \/ \E t \in Credentials, p \in DOMAIN polls, q \in QuestionIds, a \in AnswerInputs :
            vote_poll(t, p, q, a)

SpecPolls == Init /\ [][NextPolls]_vars

(* The admin_ids lists a GroupCreate can carry: any list of user ids,      *)
(* repeats included                                                        *)
AdminLists == UNION {[1..n -> DOMAIN users] : n \in 0..MaxAdminList}

(* Groups and their membership: accounts, one group and every handler that *)
(* changes it                                                              *)
NextGroups ==
    \/ \E e \in Emails : register(e, "password")
    \/ \E e \in Emails : login(e, "password")
    \/ \E t \in Credentials, ty \in GroupTypes, a \in AdminLists : create_group(t, ty, a)
    \/ \E t \in Credentials, g \in DOMAIN groups, ty \in GroupTypes \cup {""} :
            update_group(t, g, ty)
    \/ \E t \in Credentials, g \in DOMAIN groups : join_group(t, g)
    \/ \E t \in Credentials, g \in DOMAIN groups : leave_group(t, g)
    \/ \E t \in Credentials, g \in DOMAIN groups, u \in DOMAIN users :
            promote_to_admin(t, g, u)
    \/ \E t \in Credentials, g \in DOMAIN groups : delete_group(t, g)

SpecGroups == Init /\ [][NextGroups]_vars

(* Events and their participants: accounts, one event and every handler    *)
(* that changes it                                                         *)
NextEvents ==
    \/ \E e \in Emails : register(e, "password")
    \/ \E e \in Emails : login(e, "password")
    \/ \E t \in Credentials, pr \in Privacies, o \in SUBSET DOMAIN users, m \in SUBSET DOMAIN users :
            create_event(t, pr, o, m, NoId, FALSE)
    \/ \E t \in Credentials, ev \in DOMAIN events, pr \in Optional(Privacies),
          o \in Optional(SUBSET DOMAIN users), m \in Optional(SUBSET DOMAIN users) :
            configure_event(t, ev, pr, o, m)
    \/ \E t \in Credentials, ev \in DOMAIN events, pr \in Optional(Privacies),
          o \in Optional(SUBSET DOMAIN users), m \in Optional(SUBSET DOMAIN users) :
            update_event(t, ev, pr, o, m)
    \/ \E t \in Credentials, ev \in DOMAIN events : join_event(t, ev)
    \/ \E t \in Credentials, ev \in DOMAIN events : delete_event(t, ev)

SpecEvents == Init /\ [][NextEvents]_vars

(* Who sees an event: accounts, one event made with any organizers and     *)
(* members, and the handlers that read events                              *)
NextEventReads ==
    \/ \E e \in Emails : register(e, "password")
    \/ \E e \in Emails : login(e, "password")
    \/ \E t \in Credentials, pr \in Privacies, o \in SUBSET DOMAIN users, m \in SUBSET DOMAIN users :
            create_event(t, pr, o, m, NoId, FALSE)
    \/ \E t \in Credentials, po \in BOOLEAN : get_events(t, po)
    \/ \E t \in Credentials, ev \in DOMAIN events : get_event(t, ev)
    \/ \E t \in Credentials, id \in DOMAIN users : get_user_events(t, id)

SpecEventReads == Init /\ [][NextEventReads]_vars

(* Who sees a group: accounts, one group of any type and administrators,   *)
(* and the handlers that read groups                                       *)
NextGroupReads ==
    \/ \E e \in Emails : register(e, "password")
    \/ \E e \in Emails : login(e, "password")
    \/ \E t \in Credentials, ty \in GroupTypes, a \in AdminLists : create_group(t, ty, a)
    \/ \E t \in Credentials, ty \in GroupTypes \cup {""} : get_groups(t, ty)
    \/ \E t \in Credentials, g \in DOMAIN groups : get_group(t, g)
    \/ \E t \in Credentials, id \in DOMAIN users : get_user_groups(t, id)

SpecGroupReads == Init /\ [][NextGroupReads]_vars

(* The life of users, events and groups: every handler that writes to one  *)
(* of the three collections, deletions included.  The event handlers write *)
(* only to events and the group handlers only to groups, so the requests   *)
(* of a run make an event or a group, not both.                            *)
NextLifecycle ==
    \/ \E e \in Emails : register(e, "password")
    \/ \E e \in Emails : login(e, "password")
    \/ \E t \in Credentials, id \in DOMAIN users : update_user(t, id)
    \/ \E t \in Credentials, id \in DOMAIN users : delete_user(t, id)
    \/ \E t \in Credentials :
            DOMAIN groups = {} /\ create_event(t, "public", {}, {}, NoId, FALSE)
    \/ \E t \in Credentials, ev \in DOMAIN events, pr \in Optional(Privacies) :
            configure_event(t, ev, pr, {}, {})
    \/ \E t \in Credentials, ev \in DOMAIN events, o \in Optional({{}}) :
            update_event(t, ev, {}, o, {})
    \/ \E t \in Credentials, ev \in DOMAIN events : join_event(t, ev)
    \/ \E t \in Credentials, ev \in DOMAIN events : delete_event(t, ev)
    \/ \E t \in Credentials :
            DOMAIN events = {} /\ create_group(t, "public", <<>>)
    \/ \E t \in Credentials, g \in DOMAIN groups, ty \in {"", "secret"} :
            update_group(t, g, ty)
    \/ \E t \in Credentials, g \in DOMAIN groups : join_group(t, g)
    \/ \E t \in Credentials, g \in DOMAIN groups : leave_group(t, g)
    \/ \E t \in Credentials, g \in DOMAIN groups, u \in DOMAIN users :
            promote_to_admin(t, g, u)
    \/ \E t \in Credentials, g \in DOMAIN groups : delete_group(t, g)

SpecLifecycle == Init /\ [][NextLifecycle]_vars

(* Discussions: accounts, one event to link to, a discussion on it and its *)
(* messages                                                                *)
NextDiscussions ==
    \/ \E e \in Emails : register(e, "password")
    \/ \E e \in Emails : login(e, "password")
    \/ \E t \in Credentials, pr \in Privacies : create_event(t, pr, {}, {}, NoId, FALSE)
    \/ \E t \in Credentials, ty \in DiscussionTypes, l \in DOMAIN events :
            DOMAIN discussions = {} /\ create_discussion(t, ty, l)
    \/ \E t \in Credentials, d \in DOMAIN discussions,
          b \in DOMAIN discussions \cup {NoId}, pa \in DOMAIN messages \cup {NoId} :
            create_message(t, d, b, pa)

SpecDiscussions == Init /\ [][NextDiscussions]_vars

(* The ticket office with purchases in flight at the same time *)
NextPurchases ==
    \/ \E e \in Emails : register(e, "password")
    \/ \E e \in Emails : login(e, "password")
    \/ \E t \in Credentials : create_event(t, "public", {}, {}, NoId, FALSE)
    \/ \E t \in Credentials, ev \in DOMAIN events, q \in 1..MaxQuantity, m \in 1..MaxPerPerson :
            create_ticket_type(t, ev, q, m)
    \/ \E r \in Requests, t \in Credentials, tt \in DOMAIN ticket_types :
            purchase_find(r, t, tt)
    \/ \E r \in Requests : purchase_count(r)
    \/ \E r \in Requests : purchase_insert(r)
    \/ \E r \in Requests : purchase_increment(r)

SpecPurchases == Init /\ [][NextPurchases]_vars

----------------------------------------------------------------------------
(* Properties of the user and session handlers, checked under SpecUsers;   *)
(* C1 under SpecReads                                                      *)

ReadOps == {"get_users", "get_user", "search_users", "read_users_me",
            "get_events", "get_event", "get_user_events",
            "get_groups", "get_group", "get_user_groups"}

(* C1: no list or get operation returns a record whose is_active is false. *)
(* Stated of the response of every read: each document it carries is       *)
(* active.                                                                 *)
C1_ReadsReturnOnlyActive ==
    (resp.op \in ReadOps /\ resp.status = OK) => \A d \in resp.docs : d.is_active

(* C2: while an active user holds email e, register / create_user with e   *)
(* answers 400 and inserts nothing; when no active user holds e (never     *)
(* registered, or its holder was soft-deleted) the request inserts one     *)
(* active user with e; so at every moment at most one active user has a    *)
(* given email.                                                            *)
C2_OneActivePerEmail ==
    \A a, b \in ActiveUsers : users[a].email = users[b].email => a = b

C2_RegisterStep ==
    (resp'.op \in {"register", "create_user"} /\ resp'.status # Unauthorized) =>
        IF \E id \in ActiveUsers : users[id].email = resp'.email
        THEN resp'.status = BadRequest /\ users' = users
        ELSE /\ resp'.status = Created
             /\ resp'.target \notin DOMAIN users
             /\ DOMAIN users' = DOMAIN users \cup {resp'.target}
             /\ users'[resp'.target].email = resp'.email
             /\ users'[resp'.target].is_active
             /\ \A id \in DOMAIN users : users'[id] = users[id]

C3_LoginIffRegisteredPassword ==
    (resp.op = "login" /\ resp.target # NoId /\ users[resp.target].is_active) =>
        IF resp.password = users[resp.target].reg_password
        THEN resp.status = OK /\ resp.sub = resp.target /\ resp.target \in tokens
        ELSE resp.status = Unauthorized /\ resp.sub = NoId

(* C4: login with the credentials of a soft-deleted account answers 401    *)
(* and issues no token.                                                    *)
C4_InactiveLoginUnauthorized ==
    (/\ resp.op = "login"
     /\ resp.target # NoId
     /\ ~ users[resp.target].is_active
     /\ resp.password = users[resp.target].reg_password) =>
        resp.status = Unauthorized /\ resp.sub = NoId

----------------------------------------------------------------------------
(* Properties of the ticket office, checked under SpecTickets, where each  *)
(* purchase_ticket request runs to its end before the next one starts      *)

PurchaseStep ==
    /\ resp'.op = "purchase_ticket"
    /\ resp'.caller # NoId
    /\ resp'.target \in ActiveTicketTypes

(* C5: sold_count <= quantity for every ticket type, and a purchase        *)
(* attempted when sold_count = quantity answers 400, inserts no ticket and *)
(* leaves sold_count as it was.                                            *)
C5_SoldWithinQuantity ==
    \A id \in DOMAIN ticket_types :
        ticket_types[id].sold_count <= ticket_types[id].quantity

C5_SoldOutStep ==
    (PurchaseStep /\ ticket_types[resp'.target].sold_count
                        = ticket_types[resp'.target].quantity) =>
        /\ resp'.status = BadRequest
        /\ tickets' = tickets
        /\ ticket_types' = ticket_types

C5_NoOversellSequential == []C5_SoldWithinQuantity /\ [][C5_SoldOutStep]_vars

(* A purchase was refused for lack of inventory alone: the type is sold    *)
(* out and the buyer is below the personal limit.                          *)
C5_Witness ==
    /\ resp.op = "purchase_ticket"
    /\ resp.status = BadRequest
    /\ ticket_types[resp.target].sold_count = ticket_types[resp.target].quantity
    /\ user_tickets_count(resp.target, resp.caller)
          < ticket_types[resp.target].max_per_person

(* C6: a buyer never holds more than max_per_person valid tickets of a     *)
(* type, and a purchase by a buyer already holding max_per_person answers  *)
(* 400 even when inventory remains, changing neither tickets nor           *)
(* sold_count.                                                             *)
C6_WithinPersonalLimit ==
    \A id \in DOMAIN ticket_types : \A u \in DOMAIN users :
        user_tickets_count(id, u) <= ticket_types[id].max_per_person

C6_LimitStep ==
    (/\ PurchaseStep
     /\ user_tickets_count(resp'.target, resp'.caller)
           >= ticket_types[resp'.target].max_per_person
     /\ ticket_types[resp'.target].quantity - ticket_types[resp'.target].sold_count > 0) =>
        /\ resp'.status = BadRequest
        /\ tickets' = tickets
        /\ ticket_types' = ticket_types

C6_PersonalLimitSequential == []C6_WithinPersonalLimit /\ [][C6_LimitStep]_vars

(* A purchase was refused for the personal limit while inventory remains. *)
C6_Witness ==
    /\ resp.op = "purchase_ticket"
    /\ resp.status = BadRequest
    /\ user_tickets_count(resp.target, resp.caller)
          = ticket_types[resp.target].max_per_person
    /\ ticket_types[resp.target].quantity - ticket_types[resp.target].sold_count > 0

(* C7: no two distinct stored tickets have the same ticket_number. *)
C7_TicketNumbersUnique ==
    \A a, b \in DOMAIN tickets :
        a # b => tickets[a].ticket_number # tickets[b].ticket_number

----------------------------------------------------------------------------
(* Properties of voting, checked under SpecPolls *)

VoteStep ==
    /\ resp'.op = "vote_poll"
    /\ resp'.caller # NoId
    /\ resp'.target \in ActivePolls

(* member or organizer of the event, whether or not the event is active *)
Participant(user_id, event_id) ==
    /\ event_id \in DOMAIN events
    /\ user_id \in events[event_id].members \cup events[event_id].organizers

DeclaredAnswers(poll) ==
    UNION {poll.questions[i].answers : i \in 1..Len(poll.questions)}

CountOf(poll, i, a) ==
    IF a \in DOMAIN poll.questions[i].response_counts
    THEN poll.questions[i].response_counts[a] ELSE 0

OneVoteAdded(poll_id, user_id, answer) ==
    \E k \in DOMAIN votes' :
        /\ k \notin DOMAIN votes
        /\ DOMAIN votes' = DOMAIN votes \cup {k}
        /\ votes'[k].poll_id = poll_id
        /\ votes'[k].user_id = user_id
        /\ votes'[k].answer = answer
        /\ \A x \in DOMAIN votes : votes'[x] = votes[x]

OneCountAdded(poll_id, answer) ==
    LET old == polls[poll_id]
        new == polls'[poll_id]
    IN
    /\ new.total_responses = old.total_responses + 1
    /\ \E i \in 1..Len(old.questions) :
          /\ CountOf(new, i, answer) = CountOf(old, i, answer) + 1
          /\ \A j \in 1..Len(old.questions) : \A b \in DeclaredAnswers(old) \cup {answer} :
                (j # i \/ b # answer) => CountOf(new, j, b) = CountOf(old, j, b)

(* C8: on a poll with allow_multiple_votes = false made by create_poll, a  *)
(* participant's first vote with a declared answer answers 200 and adds 1  *)
(* to total_responses and to that answer's count, all other counts kept;   *)
(* a second vote by the same user answers 400, stores no vote and changes  *)
(* no counter.                                                             *)
C8_VoteStep ==
    (/\ VoteStep
     /\ ~ polls[resp'.target].allow_multiple_votes
     /\ polls[resp'.target].event_id \in ActiveEvents
     /\ Participant(resp'.caller, polls[resp'.target].event_id)
     /\ resp'.answer \in DeclaredAnswers(polls[resp'.target])) =>
        IF VotesOf(resp'.target, resp'.caller) = {}
        THEN /\ resp'.status = OK
             /\ OneVoteAdded(resp'.target, resp'.caller, resp'.answer)
             /\ OneCountAdded(resp'.target, resp'.answer)
        ELSE /\ resp'.status = BadRequest
             /\ votes' = votes
             /\ polls' = polls

C8_FirstVoteCountsSecondRefused == [][C8_VoteStep]_vars

(* C9: a vote whose answer is not among the declared answers answers 404,  *)
(* stores no vote and leaves total_responses and every response_counts     *)
(* entry as they were (the caller being a participant who may still vote). *)
C9_VoteStep ==
    (/\ VoteStep
     /\ polls[resp'.target].event_id \in ActiveEvents
     /\ Participant(resp'.caller, polls[resp'.target].event_id)
     /\ (polls[resp'.target].allow_multiple_votes \/ VotesOf(resp'.target, resp'.caller) = {})
     /\ resp'.answer \notin DeclaredAnswers(polls[resp'.target])) =>
        /\ resp'.status = NotFound
        /\ votes' = votes
        /\ polls' = polls

C9_UndeclaredAnswerNotFound == [][C9_VoteStep]_vars

(* C10: on an active poll, a vote by a caller who is neither member nor    *)
(* organizer of the poll's event answers 403 and records no vote, whatever *)
(* has become of the event since (soft-deleted included).                  *)
C10_VoteStep ==
    (VoteStep /\ ~ Participant(resp'.caller, polls[resp'.target].event_id)) =>
        /\ resp'.status = Forbidden
        /\ votes' = votes

C10_OutsiderVoteForbidden == [][C10_VoteStep]_vars

----------------------------------------------------------------------------
(* Properties of the group handlers, checked under SpecGroups *)

LeaveStep ==
    /\ resp'.op = "leave_group"
    /\ resp'.caller # NoId
    /\ resp'.target \in ActiveGroups

(* C11: leave_group called by a user who is the one element of admin_ids   *)
(* answers 400 and leaves the group's admin_ids, member_ids and is_active  *)
(* as they were.                                                           *)
C11_LeaveStep ==
    (LeaveStep /\ groups[resp'.target].admin_ids = <<resp'.caller>>) =>
        /\ resp'.status = BadRequest
        /\ groups'[resp'.target] = groups[resp'.target]

C12_CreatorIsAdmin ==
    \A g \in ActiveGroups : groups[g].creator_id \in Elems(groups[g].admin_ids)

----------------------------------------------------------------------------
(* Properties of the event handlers, checked under SpecEvents *)

(* C13: in every state reached by create_event, configure_event,           *)
(* update_event and join_event, the creator_id of every active event is an *)
(* element of its organizers.                                              *)
C13_CreatorIsOrganizer ==
    \A ev \in ActiveEvents : events[ev].creator_id \in events[ev].organizers

(* Properties of the event reads, checked under SpecEventReads *)

EventInsider(user_id, doc) ==
    \/ user_id = doc.creator_id
    \/ user_id \in doc.organizers
    \/ user_id \in doc.members

(* C14: a private event is disclosed only to its creator, organizers and   *)
(* members: get_event answers 403 to every other caller and returns the    *)
(* event to a member, and no list (get_events, get_user_events) returned   *)
(* to another caller includes the event.                                   *)
C14_PrivateEventDisclosure ==
    /\ (resp.op \in {"get_events", "get_user_events"} /\ resp.status = OK) =>
          \A doc \in resp.docs :
              doc.privacy = "private" => EventInsider(resp.caller, doc)
    /\ (/\ resp.op = "get_event"
        /\ resp.caller # NoId
        /\ resp.target \in ActiveEvents
        /\ events[resp.target].privacy = "private") =>
          IF EventInsider(resp.caller, events[resp.target])
          THEN resp.status = OK /\ resp.docs = {EventDoc(resp.target)}
          ELSE resp.status = Forbidden /\ resp.docs = {}

(* Properties of the group reads, checked under SpecGroupReads *)

GroupInsider(user_id, doc) ==
    \/ user_id = doc.creator_id
    \/ user_id \in Elems(doc.admin_ids)
    \/ user_id \in doc.member_ids

(* C15: a secret group is disclosed only to its admins, members and        *)
(* creator: get_group answers 403 to every other caller, and no list       *)
(* (get_groups with or without a group_type filter, get_user_groups)       *)
(* returned to another caller includes the group.                          *)
C15_SecretGroupDisclosure ==
    /\ (resp.op \in {"get_groups", "get_user_groups"} /\ resp.status = OK) =>
          \A doc \in resp.docs :
              doc.type = "secret" => GroupInsider(resp.caller, doc)
    /\ (/\ resp.op = "get_group"
        /\ resp.caller # NoId
        /\ resp.target \in ActiveGroups
        /\ groups[resp.target].type = "secret"
        /\ ~ GroupInsider(resp.caller, groups[resp.target])) =>
          resp.status = Forbidden /\ resp.docs = {}

(* Properties of join_group on secret groups, checked under SpecGroups *)

JoinStep ==
    /\ resp'.op = "join_group"
    /\ resp'.caller # NoId
    /\ resp'.target \in ActiveGroups

(* C16: join_group on a secret group fails (403) for every caller and      *)
(* leaves member_ids and admin_ids unchanged; and across any step in which *)
(* a group is secret before and after, member_ids does not grow.           *)
C16_JoinStep ==
    /\ (JoinStep /\ groups[resp'.target].type = "secret") =>
          /\ resp'.status = Forbidden
          /\ groups'[resp'.target] = groups[resp'.target]
    /\ \A g \in DOMAIN groups :
          (groups[g].type = "secret" /\ groups'[g].type = "secret") =>
              groups'[g].member_ids \subseteq groups[g].member_ids

C16_SecretGroupRejectsJoin == [][C16_JoinStep]_vars

(* A join was refused on a secret group that has a member, asked by        *)
(* someone who is not in the group                                         *)
C16_Witness ==
    /\ resp.op = "join_group"
    /\ resp.status = Forbidden
    /\ resp.target \in ActiveGroups
    /\ groups[resp.target].type = "secret"
    /\ groups[resp.target].member_ids # {}
    /\ resp.caller \notin groups[resp.target].member_ids
    /\ resp.caller \notin Elems(groups[resp.target].admin_ids)

----------------------------------------------------------------------------
(* Soft deletion, checked under SpecLifecycle *)

StaysInactive(coll, collNext) ==
    \A id \in DOMAIN coll :
        ~ coll[id].is_active => (id \in DOMAIN collNext /\ ~ collNext[id].is_active)

(* C17: soft delete is terminal: a user, event or group whose is_active is *)
(* false has is_active false after every step.                             *)
C17_Step ==
    /\ StaysInactive(users, users')
    /\ StaysInactive(events, events')
    /\ StaysInactive(groups, groups')

C17_SoftDeleteTerminal == [][C17_Step]_vars

(* A user was soft-deleted and their email has been registered again, a    *)
(* group with a member was deleted, and a join of the deleted group was    *)
(* then turned away                                                        *)
C17_Witness ==
    /\ \E id \in DOMAIN users \ ActiveUsers :
           \E other \in ActiveUsers : users[other].email = users[id].email
    /\ resp.op = "join_group"
    /\ resp.status = NotFound
    /\ resp.target \in DOMAIN groups \ ActiveGroups
    /\ groups[resp.target].member_ids # {}

----------------------------------------------------------------------------
(* Properties of discussions and messages, checked under SpecDiscussions *)

ParentInDiscussion(parent_message_id, discussion_id) ==
    /\ parent_message_id \in DOMAIN messages
    /\ messages[parent_message_id].is_active
    /\ messages[parent_message_id].discussion_id = discussion_id

MessageStored(caller, parent_message_id) ==
    \E id \in DOMAIN messages' \ DOMAIN messages :
        /\ DOMAIN messages' = DOMAIN messages \cup {id}
        /\ messages'[id].author_id = caller
        /\ messages'[id].parent_message_id = parent_message_id
        /\ messages'[id].reply_count = 0

(* C18: create_message on an accessible active discussion stores the       *)
(* message and adds exactly 1 to that discussion's message_count; when     *)
(* parent_message_id names an active message of the same discussion it     *)
(* also adds exactly 1 to that parent's reply_count and changes no other   *)
(* message's reply_count.                                                  *)
C18_MessageStep ==
    \A t \in tokens, d \in ActiveDiscussions,
       b \in DOMAIN discussions \cup {NoId}, pa \in DOMAIN messages \cup {NoId} :
        (/\ create_message(t, d, b, pa)
         /\ validate_discussion_access(discussions[d], t)
         /\ pa # NoId => ParentInDiscussion(pa, d)) =>
            /\ resp'.status = Created
            /\ MessageStored(t, pa)
            /\ discussions'[d].message_count = discussions[d].message_count + 1
            /\ \A m \in DOMAIN messages :
                  messages'[m].reply_count =
                      messages[m].reply_count + (IF m = pa THEN 1 ELSE 0)

C18_MessageCounters == [][C18_MessageStep]_vars

(* A second reply to the same message was stored: its parent now counts    *)
(* two replies and the discussion three messages                           *)
C18_Witness ==
    /\ resp.op = "create_message"
    /\ resp.status = Created
    /\ \E doc \in resp.docs :
          /\ doc.parent_message_id \in DOMAIN messages
          /\ messages[doc.parent_message_id].reply_count = 2
    /\ discussions[resp.target].message_count = 3

(* C19: every stored message whose parent_message_id is set has the same   *)
(* discussion_id as the message its parent_message_id refers to.           *)
C19_ReplyInParentsDiscussion ==
    \A m \in DOMAIN messages :
        messages[m].parent_message_id # NoId =>
            /\ messages[m].parent_message_id \in DOMAIN messages
            /\ messages[messages[m].parent_message_id].discussion_id
                   = messages[m].discussion_id

----------------------------------------------------------------------------
(* Purchases in flight at the same time, checked under SpecPurchases *)

TicketsOfType(ticket_type_id) ==
    {k \in DOMAIN tickets : tickets[k].ticket_type_id = ticket_type_id}

AwaitingIncrement(ticket_type_id) ==
    {r \in Requests : /\ purchases[r].pc = "inserted"
                      /\ purchases[r].ticket_type_id = ticket_type_id}

C20_IssuedTickets ==
    \A tt \in DOMAIN ticket_types :
        Cardinality(TicketsOfType(tt))
            = ticket_types[tt].sold_count + Cardinality(AwaitingIncrement(tt))

C20_LoneIncrement ==
    \A r \in Requests :
        (/\ purchase_increment(r)
         /\ ticket_types[purchases[r].ticket_type_id].sold_count = purchases[r].sold_count) =>
            ticket_types'[purchases[r].ticket_type_id].sold_count
                <= ticket_types'[purchases[r].ticket_type_id].quantity

(* C20: when two purchase_ticket requests for one ticket type interleave   *)
(* between their read, their insert and their increment, sold_count can    *)
(* pass quantity (the state C20_Witness).  Every ticket stored is counted  *)
(* by sold_count once its request has ended, so more tickets are issued    *)
(* than the quantity; and an increment by a request whose read of          *)
(* sold_count is still current never passes quantity, so the excess comes  *)
(* from the interleaving alone.                                            *)
C20_OversellByInterleaving == []C20_IssuedTickets /\ [][C20_LoneIncrement]_vars

(* Every request has ended and more tickets of a type are sold and stored  *)
(* than its quantity                                                       *)
C20_Witness ==
    /\ \A r \in Requests : purchases[r].pc = "idle"
    /\ \E tt \in DOMAIN ticket_types :
          /\ ticket_types[tt].sold_count > ticket_types[tt].quantity
          /\ Cardinality(TicketsOfType(tt)) > ticket_types[tt].quantity

----------------------------------------------------------------------------
(* The polls of an event with the vote_poll requests of several workers in *)
(* flight at the same time                                                 *)
NextVotes ==
    \/ \E e \in Emails : register(e, "password")
    \/ \E e \in Emails : login(e, "password")
    \/ \E t \in Credentials : create_event(t, "public", {}, {}, NoId, FALSE)
    \/ \E t \in Credentials, ev \in DOMAIN events : join_event(t, ev)
    \/ \E t \in Credentials, ev \in DOMAIN events, q \in QuestionInputs, m \in BOOLEAN :
            create_poll(t, ev, <<q>>, m)
    \/ \E r \in Requests, t \in Credentials, p \in DOMAIN polls, q \in QuestionIds,
          a \in AnswerInputs : vote_find_poll(r, t, p, q, a)
    \/ \E r \in Requests : vote_resume(r)

SpecVotes == Init /\ [][NextVotes]_vars

----------------------------------------------------------------------------
(* One group with the membership requests of several workers in flight at  *)
(* the same time                                                           *)
NextGroupRaces ==
    \/ \E e \in Emails : register(e, "password")
    \/ \E e \in Emails : login(e, "password")
    \/ \E t \in Credentials, a \in AdminLists : create_group(t, "public", a)
    \/ \E r \in Requests, t \in Credentials, g \in DOMAIN groups : join_group_find(r, t, g)
    \/ \E r \in Requests, t \in Credentials, g \in DOMAIN groups : leave_group_find(r, t, g)
    \/ \E r \in Requests, t \in Credentials, g \in DOMAIN groups, u \in DOMAIN users :
            promote_to_admin_find(r, t, g, u)
    \/ \E r \in Requests : group_update(r)

SpecGroupRaces == Init /\ [][NextGroupRaces]_vars

(* C22: every active group has at least one administrator, in every state  *)
(* reached by interleaved leave_group, join_group and promote_to_admin     *)
(* requests and for every admin_ids list create_group accepts.             *)
C22_ActiveGroupHasAdmin ==
    \A g \in ActiveGroups : groups[g].admin_ids # <<>>

----------------------------------------------------------------------------
(* Accounts with the register and create_user requests of several workers  *)
(* in flight at the same time                                              *)
NextRegistrations ==
    \/ \E r \in Requests, e \in Emails, p \in Passwords : register_validate(r, e, p)
    \/ \E r \in Requests, t \in Credentials, e \in Emails, p \in Passwords :
            create_user_validate(r, t, e, p)
    \/ \E r \in Requests : user_insert(r)
    \/ \E e \in Emails, p \in Passwords : login(e, p)
    \/ \E t \in Credentials, id \in DOMAIN users : delete_user(t, id)

SpecRegistrations == Init /\ [][NextRegistrations]_vars

(* C23: no two active users share an email, in every state reached by      *)
(* interleaved register and create_user requests: of two requests with the *)
(* same email, at most one ends with an active user stored.                *)
C23_ActiveEmailsUnique ==
    \A a, b \in ActiveUsers : users[a].email = users[b].email => a = b

----------------------------------------------------------------------------
(* C24: once a user is soft-deleted, every later request that presents a   *)
(* token issued to that user is rejected by get_current_user with 401, so  *)
(* no response names the deleted user as its authenticated caller.         *)
C24_Step ==
    \A u \in DOMAIN users :
        (~ users[u].is_active /\ resp' # resp) => resp'.caller # u

C24_DeletedUserRejected == [][C24_Step]_vars

----------------------------------------------------------------------------
(* Deletion against the requests in flight: one event or one group (the    *)
(* event handlers write only to events and the group handlers only to      *)
(* groups, so a run makes one or the other), its deletion, and the         *)
(* requests of several workers that change it.                             *)
NextDeleteRaces ==
    \/ \E e \in Emails : register(e, "password")
    \/ \E e \in Emails : login(e, "password")
    \/ \E t \in Credentials :
            DOMAIN groups = {} /\ create_event(t, "public", {}, {}, NoId, FALSE)
    \/ \E t \in Credentials, ev \in DOMAIN events : delete_event(t, ev)
    \/ \E r \in Requests, t \in Credentials, ev \in DOMAIN events : join_event_find(r, t, ev)
    \/ \E r \in Requests, t \in Credentials, ev \in DOMAIN events :
            update_event_find(r, t, ev, {"private"}, {}, {})
    \/ \E r \in Requests, t \in Credentials, ev \in DOMAIN events :
            configure_event_find(r, t, ev, {}, {{}}, {})
    \/ \E r \in Requests : event_update(r)
    \/ \E t \in Credentials :
            DOMAIN events = {} /\ create_group(t, "public", <<>>)
    \/ \E t \in Credentials, g \in DOMAIN groups : delete_group(t, g)
    \/ \E r \in Requests, t \in Credentials, g \in DOMAIN groups : join_group_find(r, t, g)
    \/ \E r \in Requests, t \in Credentials, g \in DOMAIN groups : leave_group_find(r, t, g)
    \/ \E r \in Requests, t \in Credentials, g \in DOMAIN groups, u \in DOMAIN users :
            promote_to_admin_find(r, t, g, u)
    \/ \E r \in Requests : group_update(r)

SpecDeleteRaces == Init /\ [][NextDeleteRaces]_vars

(* C25: no step changes an event or a group whose is_active is false,      *)
(* whatever the interleaving of delete_event and delete_group with the     *)
(* join, update, configure, leave and promote requests on the same record. *)
C25_Step ==
    /\ \A id \in DOMAIN events : ~ events[id].is_active => events'[id] = events[id]
    /\ \A id \in DOMAIN groups : ~ groups[id].is_active => groups'[id] = groups[id]

C25_InactiveUnchanged == [][C25_Step]_vars

----------------------------------------------------------------------------
(* The counters kept next to the documents they count: one event and, in a *)
(* run, its ticket types, or a discussion, or an album, with the requests  *)
(* of several workers stopping between their insert and their increment.   *)
NextCounters ==
    \/ \E e \in Emails : register(e, "password")
    \/ \E e \in Emails : login(e, "password")
    \/ \E t \in Credentials : create_event(t, "public", {}, {}, NoId, FALSE)
    \/ \E t \in Credentials, ev \in DOMAIN events, q \in 1..MaxQuantity :
            /\ DOMAIN discussions = {} /\ DOMAIN albums = {}
            /\ create_ticket_type(t, ev, q, MaxPerPerson)
    \/ \E r \in Requests, t \in Credentials, tt \in DOMAIN ticket_types :
            purchase_find(r, t, tt)
    \/ \E r \in Requests : purchase_count(r)
    \/ \E r \in Requests : purchase_insert(r)
    \/ \E r \in Requests : purchase_increment(r)
    \/ \E t \in Credentials, l \in DOMAIN events :
            /\ DOMAIN ticket_types = {} /\ DOMAIN albums = {} /\ DOMAIN discussions = {}
            /\ create_discussion(t, "event", l)
    \/ \E r \in Requests, t \in Credentials, d \in DOMAIN discussions,
          b \in DOMAIN discussions \cup {NoId} :
            create_message_insert(r, t, d, b, NoId)
    \/ \E r \in Requests : create_message_increment(r)
    \/ \E t \in Credentials, ev \in DOMAIN events, n \in AlbumNames :
            /\ DOMAIN ticket_types = {} /\ DOMAIN discussions = {}
            /\ create_album(t, ev, n)
    \/ \E r \in Requests, t \in Credentials, a \in DOMAIN albums :
            upload_photo_insert(r, t, a)
    \/ \E r \in Requests, t \in Credentials, ph \in DOMAIN photos,
          b \in DOMAIN photos \cup {NoId} :
            create_comment_insert(r, t, ph, b)
    \/ \E r \in Requests : counter_increment(r)

SpecCounters == Init /\ [][NextCounters]_vars

(* C26: a counter never exceeds the number of documents it counts, also    *)
(* while a request has inserted and not yet incremented: message_count of  *)
(* a discussion against the messages with its discussion_id, comment_count *)
(* of a photo against the comments with its photo_id, photo_count of an    *)
(* album against its photos, sold_count of a ticket type against its       *)
(* tickets.                                                                *)
C26_MessageCount ==
    \A d \in DOMAIN discussions :
        discussions[d].message_count
            <= Cardinality({m \in DOMAIN messages : messages[m].discussion_id = d})

C26_CommentCount ==
    \A ph \in DOMAIN photos :
        photos[ph].comment_count
            <= Cardinality({c \in DOMAIN comments : comments[c].photo_id = ph})

C26_PhotoCount ==
    \A a \in DOMAIN albums :
        albums[a].photo_count
            <= Cardinality({ph \in DOMAIN photos : photos[ph].album_id = a})

C26_SoldCount ==
    \A tt \in DOMAIN ticket_types :
        ticket_types[tt].sold_count <= Cardinality(TicketsOfType(tt))

C26_CountersNotOverstated ==
    /\ C26_MessageCount
    /\ C26_CommentCount
    /\ C26_PhotoCount
    /\ C26_SoldCount

----------------------------------------------------------------------------
(* Who may read a discussion and who may read what it is linked to: one    *)
(* event or one group (a run makes one or the other), the requests that    *)
(* take the creator off its lists or delete it, a discussion on it, its    *)
(* messages, and the three reads                                           *)
NextDiscussionAccess ==
    \/ \E e \in Emails : register(e, "password")
    \/ \E e \in Emails : login(e, "password")
    \/ \E t \in Credentials, pr \in Privacies :
            DOMAIN groups = {} /\ create_event(t, pr, {}, {}, NoId, FALSE)
    \/ \E t \in Credentials, ev \in DOMAIN events : update_event(t, ev, {}, {{}}, {})
    \/ \E t \in Credentials, ev \in DOMAIN events : delete_event(t, ev)
    \/ \E t \in Credentials, a \in AdminLists :
            DOMAIN events = {} /\ create_group(t, "secret", a)
    \/ \E t \in Credentials, g \in DOMAIN groups : leave_group(t, g)
    \/ \E t \in Credentials, g \in DOMAIN groups : delete_group(t, g)
    \/ \E t \in Credentials, ty \in DiscussionTypes, l \in DOMAIN events \cup DOMAIN groups :
            DOMAIN discussions = {} /\ create_discussion(t, ty, l)
    \/ \E t \in Credentials, d \in DOMAIN discussions : get_discussion(t, d)
    \/ \E t \in Credentials, d \in DOMAIN discussions : create_message(t, d, d, NoId)
    \/ \E t \in Credentials, ev \in DOMAIN events : get_event(t, ev)
    \/ \E t \in Credentials, g \in DOMAIN groups : get_group(t, g)

SpecDiscussionAccess == Init /\ [][NextDiscussionAccess]_vars

(* C27: for every active discussion linked to an active event (resp.       *)
(* group) and every user, validate_discussion_access lets the user in      *)
(* exactly when the access test of get_event (resp. get_group) does, the   *)
(* creator who is on none of the lists included.                           *)
C27_SameAdmission ==
    \A d \in ActiveDiscussions, u \in DOMAIN users :
        LET discussion == discussions[d]
            linked_id == discussion.linked_id
        IN
        /\ (discussion.discussion_type = "event" /\ linked_id \in ActiveEvents) =>
              (validate_discussion_access(discussion, u)
                  <=> event_access(events[linked_id], u))
        /\ (discussion.discussion_type = "group" /\ linked_id \in ActiveGroups) =>
              (validate_discussion_access(discussion, u)
                  <=> group_access(groups[linked_id], u))

----------------------------------------------------------------------------
(* C28: every active discussion is linked to an active event or group of   *)
(* its type, and a user whom validate_discussion_access keeps out of a     *)
(* discussion of a private event or secret group is still kept out by      *)
(* get_discussion and create_message after every step in which the user    *)
(* has not joined the linked record, its soft deletion included.           *)
C28_Linked ==
    \A d \in ActiveDiscussions :
        IF discussions[d].discussion_type = "event"
        THEN discussions[d].linked_id \in ActiveEvents
        ELSE discussions[d].linked_id \in ActiveGroups

C28_Step ==
    \A d \in ActiveDiscussions, u \in DOMAIN users :
        LET linked_id == discussions[d].linked_id IN
        (/\ ~ validate_discussion_access(discussions[d], u)
         /\ d \in ActiveDiscussions'
         /\ IF discussions[d].discussion_type = "event"
            THEN /\ events'[linked_id].privacy = "private"
                 /\ u \notin events'[linked_id].members \cup events'[linked_id].organizers
            ELSE /\ groups'[linked_id].type = "secret"
                 /\ u \notin groups'[linked_id].member_ids
                 /\ u \notin Elems(groups'[linked_id].admin_ids)) =>
            ~ validate_discussion_access(discussions[d], u)'

C28_AccessOutlivesDeletion == []C28_Linked /\ [][C28_Step]_vars

----------------------------------------------------------------------------
(* Posting across discussions: a private event and a public group, a       *)
(* discussion on each, and the first message, whose body names any of the  *)
(* discussions                                                             *)
NextPosting ==
    \/ \E e \in Emails : register(e, "password")
    \/ \E e \in Emails : login(e, "password")
    \/ \E t \in Credentials : create_event(t, "private", {}, {}, NoId, FALSE)
    \/ \E t \in Credentials : create_group(t, "public", <<>>)
    \/ \E t \in Credentials, ty \in DiscussionTypes, l \in DOMAIN events \cup DOMAIN groups :
            create_discussion(t, ty, l)
    \/ \E t \in Credentials, d \in DOMAIN discussions, b \in DOMAIN discussions :
            DOMAIN messages = {} /\ create_message(t, d, b, NoId)

SpecPosting == Init /\ [][NextPosting]_vars

(* C29: a message is stored with the discussion_id of the discussion on    *)
(* which create_message made its checks (the one in the path), so a user   *)
(* whom validate_discussion_access keeps out of a discussion never causes  *)
(* a message with that discussion_id to be stored.                         *)
C29_StoredWherePosted ==
    \A m \in DOMAIN messages' \ DOMAIN messages :
        messages'[m].discussion_id = resp'.target

C29_NoMessageByDenied ==
    \A m \in DOMAIN messages' \ DOMAIN messages :
        LET d == messages'[m].discussion_id IN
        d \in ActiveDiscussions =>
            validate_discussion_access(discussions[d], messages'[m].author_id)

C29_Step == C29_StoredWherePosted /\ C29_NoMessageByDenied

C29_DeniedUserStoresNothing == [][C29_Step]_vars

----------------------------------------------------------------------------
(* C30: once the holder of an email has been soft-deleted and the email    *)
(* registered again, a login with the email and the password of the new    *)
(* account authenticates the new, active account: the token's subject is   *)
(* its id, never the inactive record's, and the login is not refused.      *)
C30_Step ==
    \A e \in Emails, p \in Passwords :
        (/\ login(e, p)
         /\ \E old \in DOMAIN users \ ActiveUsers : users[old].email = e
         /\ \E new \in ActiveUsers : users[new].email = e /\ users[new].reg_password = p) =>
            /\ resp'.status = OK
            /\ resp'.sub \in ActiveUsers
            /\ users[resp'.sub].email = e

C30_LoginReachesNewAccount == [][C30_Step]_vars

====
